---------------------------- MODULE Spec2Model ----------------------------
(***************************************************************************)
(* Model of the analytical core of AnthroHPK v4.0:                         *)
(*   - brentq_rootfind / invert_zscore_function  (modules/growth_charts.py)*)
(*   - generate_*_curve                          (modules/growth_charts.py)*)
(*   - classify_permenkes_2020 / classify_who_standards,                   *)
(*     calculate_all_zscores, get_normal_ranges  (modules/who_calculator.py)*)
(*   - kalkulator_who_handler                    (app.py)                  *)
(*   - analyze_growth_velocity                   (modules/kejar_tumbuh.py) *)
(*                                                                         *)
(* Numbers.  The code works on floats.  The model uses fixed-point         *)
(* integers: measurement values (x) are counted in units of xtol/2 and     *)
(* Z-score residuals in units of half the residual tolerance, so that the  *)
(* two tolerances of brentq_rootfind are XTol = 2 and ResTol = 2 and a     *)
(* residual can be non-zero and still below the tolerance.  The sample     *)
(* spacing is a power of two of x units, so every bisection midpoint       *)
(* 0.5*(a+b) the code can reach is an integer and is computed exactly.     *)
(* Classification Z-scores are counted in halves (Z = 1.5 is 3).           *)
(*                                                                         *)
(* Optional values.  Python's None, NaN, +inf, -inf and a raised exception *)
(* are tagged records; a number n is Num(n).                               *)
(***************************************************************************)
EXTENDS Integers, Sequences, FiniteSets, TLC

None == [k |-> "none", v |-> 0]
NaN == [k |-> "nan", v |-> 0]
Inf == [k |-> "inf", v |-> 0]
NegInf == [k |-> "neginf", v |-> 0]
Raise == [k |-> "raise", v |-> 0]
Num(n) == [k |-> "num", v |-> n]

\* an argument whose type the callee does not check: a str or a number
PyStr(s) == [ty |-> "str", s |-> s, n |-> 0]
PyNum(n) == [ty |-> "num", s |-> "", n |-> n]

Abs(n) == IF n < 0 THEN -n ELSE n

RECURSIVE Pow2(_)
Pow2(n) == IF n = 0 THEN 1 ELSE 2 * Pow2(n - 1)

(***************************************************************************)
(* Bounds of the model.                                                    *)
(***************************************************************************)
\* number of sample points of one inversion (the parameter samples)
Samples == 3
\* the sample spacing is 2^StepExp x units
StepExp == 2
\* an arbitrary z_func returns None or an integer in -ZMax..ZMax
ZMax == 2
\* the lower end lo of an inversion domain ranges over 0..LoMax
LoMax == 1

Step == Pow2(StepExp)
ZRet == {None} \cup {Num(n) : n \in -ZMax..ZMax}
Targets == {0, 1}
Los == 0..LoMax
\* hi - lo is 0 (a degenerate domain) or Samples-1 sample steps
Widths == {0, (Samples - 1) * Step}

(***************************************************************************)
(* Program constants of brentq_rootfind, in model units.                   *)
(***************************************************************************)
\* abs(f) < 1e-10
ResTol == 2
\* xtol = 1e-5, passed by invert_zscore_function
XTol == 2
\* maxiter = 100
maxiter == 100

VARIABLES
    \* --- invert_zscore_function / brentq_rootfind ---
    pc,        \* "idle", "sample", "brent", "bisect", "done"
    zf,        \* the z_func being inverted: an arbitrary callable or a service closure
    zs,        \* the values z_func has returned so far (z_func is a pure function)
    target,    \* target_z
    lo, hi,
    i,         \* index into xs of the next sample
    last_x, last_f,
    best_x, best_abs,
    a, b, fa, fb, iter,   \* brentq_rootfind's locals
    result,    \* the value returned by invert_zscore_function
    path,      \* which return statement produced result
    nevals,    \* number of calls of z_func made by this inversion
    \* --- who_calculator.calc and generate_*_curve ---
    calc,      \* the module-level calculator: NoCalc or a service
    gen_pc,    \* "idle", "loop", "inv", "ret"
    gen_kind,  \* "wfa", "hfa", "hcfa", "wfl"
    gen_sex, gen_age, gen_z,   \* the arguments (age_months: wfl only)
    gen_idx,   \* index into the grid
    gen_values,\* the list weights / heights / head_circs
    gen_ret,   \* the returned (grid, values)
    \* --- classify_permenkes_2020 / classify_who_standards ---
    cls_pc,    \* "idle", "permenkes", "done"
    z_scores,  \* the argument of the classifiers
    permenkes, \* classify_permenkes_2020(z_scores)
    who,       \* classify_who_standards(z_scores)
    \* --- calculate_all_zscores / kalkulator_who_handler ---
    zsc_pc,    \* "idle", "done"
    zsc_in,    \* the arguments: sex, age_months, weight, height, head_circ
    zsc_out,   \* the returned dictionary
    zsc_calls, \* number of calculator methods called
    zsc_ret,   \* which return statement ended the call
    \* --- get_normal_ranges ---
    nr_pc,     \* "idle", "loop", "inv", "done"
    nr_sex, nr_age,
    nr_idx,    \* which of the nine inversions is next
    nr_vals,   \* the inversion results so far
    nr_ret,    \* the returned dictionary
    \* --- analyze_growth_velocity ---
    vel_pc,    \* "idle", "done"
    vel_data,  \* data_list
    vel_gender,
    vel_out,   \* the returned dictionary
    \* --- an inversion repeated for the next target_z ---
    prev_target, \* target_z of the inversion before this one
    prev_result, \* what that inversion returned
    prev_zs,     \* the values z_func returned to that inversion
    \* --- mode_mudah_handler ---
    mm_pc,     \* "idle", "call", "done"
    mm_in,     \* the arguments: usia_bulan (parsed), jenis_kelamin
    mm_out,    \* what the returned page shows
    \* --- @lru_cache(maxsize=128) around the curve generators ---
    cache,     \* per generator: the cached (key, result), least recent first
    th         \* per request thread: where it is in the wrapper and its locals

invVars == <<pc, zf, zs, target, lo, hi, i, last_x, last_f, best_x, best_abs,
             a, b, fa, fb, iter, result, path, nevals>>

genVars == <<calc, gen_pc, gen_kind, gen_sex, gen_age, gen_z, gen_idx,
             gen_values, gen_ret>>

clsVars == <<cls_pc, z_scores, permenkes, who>>

zscVars == <<zsc_pc, zsc_in, zsc_out, zsc_calls, zsc_ret>>

nrVars == <<nr_pc, nr_sex, nr_age, nr_idx, nr_vals, nr_ret>>

velVars == <<vel_pc, vel_data, vel_gender, vel_out>>

pairVars == <<prev_target, prev_result, prev_zs>>

easyVars == <<mm_pc, mm_in, mm_out>>

cacheVars == <<cache, th>>

moreVars == <<pairVars, easyVars, cacheVars>>

extVars == <<zscVars, nrVars, velVars, moreVars>>

vars == <<invVars, genVars, clsVars, extVars>>

\* no call is in progress and none has returned
Quiet ==
    /\ pc = "idle" /\ gen_pc = "idle" /\ cls_pc = "idle"
    /\ zsc_pc = "idle" /\ nr_pc = "idle" /\ vel_pc = "idle"
    /\ mm_pc = "idle"

(***************************************************************************)
(* z_func.  An arbitrary callable may return any value of ZRet at a point  *)
(* it has not been asked about and returns the same value again at a point *)
(* it has been asked about.                                                *)
(***************************************************************************)
AnyFunc == [t |-> "any"]

(***************************************************************************)
(* The reference-curve service (pygrowup's Calculator) is not part of the  *)
(* repository.  A service is a pure function of its arguments: here the    *)
(* Z-score grows by one unit per x unit around a median that depends on    *)
(* the indicator, the age, the sex and the auxiliary length, and below the *)
(* service's domain (x < minx) the call answers svc.oob: None, NaN, inf,   *)
(* -inf or an exception.                                                   *)
(***************************************************************************)
NoCalc == [t |-> "nocalc"]
Services ==
    [t : {"svc"}, shift : {0, 2}, minx : {0, 4},
     oob : {None, NaN, Inf, NegInf, Raise}]

KindBase(kind) ==
    CASE kind = "wfa" -> 1 [] kind = "hfa" -> 2 [] kind = "hcfa" -> 3
      [] kind = "wfl" -> 1 [] kind = "bmifa" -> 2

SvcMedian(svc, kind, age, sex, aux) ==
    KindBase(kind) + svc.shift + age + aux + (IF sex = "M" THEN 1 ELSE 0)

\* calc.wfa(w, age, sex), calc.lhfa(...), calc.hcfa(...), calc.wfl(w, age, sex, length)
SvcRaw(svc, kind, x, age, sex, aux) ==
    IF x < svc.minx THEN svc.oob
    ELSE Num(x - SvcMedian(svc, kind, age, sex, aux))

\* _safe_z_calc without the isnan / isinf test
SafeZCalcKeepsNonFinite(c, kind, x, age, sex, aux) ==
    IF c = NoCalc
    THEN None
    ELSE LET z == SvcRaw(c, kind, x, age, sex, aux) IN
         IF z = Raise THEN None
         ELSE z

\* _safe_z_calc(calc_func, *args)
SafeZCalc(c, kind, x, age, sex, aux) ==
    IF c = NoCalc
    THEN None
    ELSE LET z == SvcRaw(c, kind, x, age, sex, aux) IN
         IF z = Raise THEN None
         ELSE IF z = None THEN None
         ELSE IF z = NaN \/ z = Inf \/ z = NegInf THEN None
         ELSE z

\* the closures z_func passed by the curve generators:
\* lambda w: z_func(w, age)  and  lambda w: z_func(w, length)
SvcFunc(kind, sex, age, aux) ==
    [t |-> "svc", kind |-> kind, sex |-> sex, age |-> age, aux |-> aux]

\* a closure over arguments the calculator does not take (a sex that is
\* not 'M' or 'F', an age that is not a number): the calculator raises on
\* every call and _safe_z_calc answers None
BadArgsFunc == [t |-> "badargs"]

ZCall(x) ==
    IF zf.t = "any"
    THEN IF x \in DOMAIN zs THEN {zs[x]}
         ELSE IF x \in DOMAIN prev_zs THEN {prev_zs[x]}
         ELSE ZRet
    ELSE IF zf.t = "badargs" THEN {None}
    ELSE {SafeZCalc(calc, zf.kind, x, zf.age, zf.sex, zf.aux)}

Memo(x, z) == (x :> z) @@ zs

(***************************************************************************)
(* Helpers of invert_zscore_function.                                      *)
(***************************************************************************)
\* xs = np.linspace(lo, hi, samples); xs[n]
Xs(l, h, n) == l + n * ((h - l) \div (Samples - 1))

\* f = None if z is None else (z - target_z)
Residual(z, t) == IF z = None THEN None ELSE Num(z.v - t)

\* if af < best_abs   (best_abs starts at float('inf'))
IsBetterIsWorse(af, best) == best = Inf \/ af > best.v
IsBetterTies(af, best) == best = Inf \/ af <= best.v
IsBetter(af, best) == best = Inf \/ af < best.v

\* if last_f is not None and f * last_f < 0
StraddlesOrTouches(f, lf) == lf # None /\ f.v * lf.v <= 0
StraddlesSameSign(f, lf) == lf # None /\ f.v * lf.v > 0
Straddles(f, lf) == lf # None /\ f.v * lf.v < 0

\* (a + b) / 2.0 and (lo + hi) / 2.0
MidPointNoHalf(l, h) == l + h
MidPoint(l, h) == (l + h) \div 2

\* for x in xs
SampleLoopOffByOne(n) == n < Samples + 1
SampleLoopContinues(n) == n < Samples

\* lambda t: (z_func(t) or 0.0) - target_z
Lam(z, t) == Num((IF z = None \/ z.v = 0 THEN 0 ELSE z.v) - t)

\* if abs(fb) < 1e-10: return b
RootAtBWrongEnd(x1, x2) == x1
RootAtB(x1, x2) == x2

InvLocals(l, h, t, f) ==
    /\ pc' = "sample"
    /\ zf' = f
    /\ zs' = <<>>
    /\ target' = t
    /\ lo' = l
    /\ hi' = h
    /\ i' = 0
    /\ last_x' = None /\ last_f' = None
    /\ best_x' = None /\ best_abs' = Inf
    /\ a' = 0 /\ b' = 0 /\ fa' = None /\ fb' = None /\ iter' = 0
    /\ result' = None
    /\ path' = "none"
    /\ nevals' = 0

Return(r, p) ==
    /\ pc' = "done"
    /\ result' = Num(r)
    /\ path' = p

(***************************************************************************)
(* invert_zscore_function(z_func, target_z, lo, hi) called on an arbitrary *)
(* callable.                                                               *)
(***************************************************************************)
InvertCall ==
    /\ pc = "idle"
    /\ gen_pc = "idle"
    /\ \E t \in Targets, l \in Los, w \in Widths :
          InvLocals(l, l + w, t, AnyFunc)
    /\ UNCHANGED <<genVars, clsVars>>
    /\ UNCHANGED extVars

\* one iteration of "for x in xs".  The try/except around the refinement
\* only matters when z_func raises; the z_func of every caller goes through
\* _safe_z_calc, which catches every exception, so the call returns.
SampleStep ==
    /\ pc = "sample"
    /\ SampleLoopContinues(i)
    /\ LET x == Xs(lo, hi, i) IN
       \E z \in ZCall(x) :
          LET f == Residual(z, target) IN
          /\ zs' = Memo(x, z)
          /\ nevals' = nevals + 1
          /\ IF f = None
             THEN /\ i' = i + 1
                  /\ UNCHANGED <<pc, last_x, last_f, best_x, best_abs, a, b>>
             ELSE LET af == Abs(f.v)
                      better == IsBetter(af, best_abs)
                  IN /\ best_x' = IF better THEN Num(x) ELSE best_x
                     /\ best_abs' = IF better THEN Num(af) ELSE best_abs
                     /\ IF Straddles(f, last_f)
                        THEN \* brentq_rootfind(lambda..., last_x, x, xtol=1e-5)
                             /\ pc' = "brent"
                             /\ a' = last_x.v
                             /\ b' = x
                             /\ UNCHANGED <<i, last_x, last_f>>
                        ELSE /\ last_x' = Num(x)
                             /\ last_f' = f
                             /\ i' = i + 1
                             /\ UNCHANGED <<pc, a, b>>
    /\ UNCHANGED <<zf, target, lo, hi, fa, fb, iter, result, path>>
    /\ UNCHANGED <<genVars, clsVars>>
    /\ UNCHANGED extVars

\* return float(best_x if best_x is not None else (lo + hi) / 2.0)
SampleExit ==
    /\ pc = "sample"
    /\ ~SampleLoopContinues(i)
    /\ IF best_x # None
       THEN Return(best_x.v, "best")
       ELSE Return(MidPoint(lo, hi), "mid")
    /\ UNCHANGED <<zf, zs, target, lo, hi, i, last_x, last_f, best_x, best_abs,
                   a, b, fa, fb, iter, nevals>>
    /\ UNCHANGED <<genVars, clsVars>>
    /\ UNCHANGED extVars

\* brentq_rootfind, up to its loop
BrentStart ==
    /\ pc = "brent"
    /\ \E za \in ZCall(a) :
       \E zb \in (IF b = a THEN {za} ELSE ZCall(b)) :
          LET va == Lam(za, target)
              vb == Lam(zb, target)
          IN /\ zs' = (a :> za) @@ (b :> zb) @@ zs
             /\ nevals' = nevals + 2
             /\ fa' = va
             /\ fb' = vb
             /\ IF va = None \/ vb = None
                THEN Return(MidPoint(a, b), "refine")
                ELSE IF Abs(va.v) < ResTol
                THEN Return(a, "refine")
                ELSE IF Abs(vb.v) < ResTol
                THEN Return(RootAtB(a, b), "refine")
                ELSE IF va.v * vb.v > 0
                THEN Return(MidPoint(a, b), "refine")
                ELSE /\ pc' = "bisect"
                     /\ UNCHANGED <<result, path>>
    /\ iter' = 0
    /\ UNCHANGED <<zf, target, lo, hi, i, last_x, last_f, best_x, best_abs, a, b>>
    /\ UNCHANGED <<genVars, clsVars>>
    /\ UNCHANGED extVars

\* for iteration in range(maxiter): ... ; return 0.5 * (a + b)
BrentLoop ==
    /\ pc = "bisect"
    /\ IF iter < maxiter
       THEN LET m == MidPoint(a, b) IN
            \E zm \in ZCall(m) :
               LET fm == Lam(zm, target) IN
               /\ zs' = Memo(m, zm)
               /\ nevals' = nevals + 1
               /\ iter' = iter + 1
               /\ IF fm = None
                  THEN /\ Return(m, "refine")
                       /\ UNCHANGED <<a, b, fa, fb>>
                  ELSE IF Abs(fm.v) < ResTol \/ (b - a) < 2 * XTol
                  THEN /\ Return(m, "refine")
                       /\ UNCHANGED <<a, b, fa, fb>>
                  ELSE IF fa.v * fm.v < 0
                  THEN /\ b' = m /\ fb' = fm
                       /\ UNCHANGED <<a, fa, pc, result, path>>
                  ELSE /\ a' = m /\ fa' = fm
                       /\ UNCHANGED <<b, fb, pc, result, path>>
       ELSE /\ Return(MidPoint(a, b), "refine")
            /\ UNCHANGED <<zs, nevals, iter, a, b, fa, fb>>
    /\ UNCHANGED <<zf, target, lo, hi, i, last_x, last_f, best_x, best_abs>>
    /\ UNCHANGED <<genVars, clsVars>>
    /\ UNCHANGED extVars

\* the same closure inverted for the next target: the plot functions ask
\* for the curves of all the SD lines one after the other, and each curve
\* inverts lambda w: z_func(w, age) at every grid point over the same
\* (lo, hi).  z_func is pure: what it answered to the inversion before,
\* it answers again.
InvertNextTarget ==
    /\ pc = "done"
    /\ gen_pc = "idle"
    /\ prev_result = None
    /\ prev_target' = target
    /\ prev_result' = result
    /\ prev_zs' = zs
    /\ zs' = <<>>
    /\ \E t \in Targets \ {target} : target' = t
    /\ pc' = "sample"
    /\ i' = 0
    /\ last_x' = None /\ last_f' = None
    /\ best_x' = None /\ best_abs' = Inf
    /\ a' = 0 /\ b' = 0 /\ fa' = None /\ fb' = None /\ iter' = 0
    /\ result' = None
    /\ path' = "none"
    /\ nevals' = 0
    /\ UNCHANGED <<zf, lo, hi>>
    /\ UNCHANGED <<genVars, clsVars, zscVars, nrVars, velVars, easyVars,
                   cacheVars>>

InvertStep == SampleStep \/ SampleExit \/ BrentStart \/ BrentLoop

InitInv ==
    /\ pc = "idle"
    /\ zf = AnyFunc
    /\ zs = <<>>
    /\ target = 0
    /\ lo = 0 /\ hi = 0
    /\ i = 0
    /\ last_x = None /\ last_f = None
    /\ best_x = None /\ best_abs = Inf
    /\ a = 0 /\ b = 0 /\ fa = None /\ fb = None /\ iter = 0
    /\ result = None
    /\ path = "none"
    /\ nevals = 0

InitGen ==
    /\ gen_pc = "idle"
    /\ gen_kind = "wfa" /\ gen_sex = "M" /\ gen_age = 0 /\ gen_z = 0
    /\ gen_idx = 0
    /\ gen_values = <<>>
    /\ gen_ret = None

InitCls ==
    /\ cls_pc = "idle"
    /\ z_scores = <<>>
    /\ permenkes = <<>>
    /\ who = <<>>

InitZsc ==
    /\ zsc_pc = "idle"
    /\ zsc_in = <<>>
    /\ zsc_out = <<>>
    /\ zsc_calls = 0
    /\ zsc_ret = "none"

InitNr ==
    /\ nr_pc = "idle"
    /\ nr_sex = PyStr("M") /\ nr_age = PyNum(0)
    /\ nr_idx = 0
    /\ nr_vals = <<>>
    /\ nr_ret = <<>>

InitVel ==
    /\ vel_pc = "idle"
    /\ vel_data = <<>>
    /\ vel_gender = "Laki-laki"
    /\ vel_out = <<>>

InitPair ==
    /\ prev_target = 0
    /\ prev_result = None
    /\ prev_zs = <<>>

InitEasy ==
    /\ mm_pc = "idle"
    /\ mm_in = <<>>
    /\ mm_out = <<>>

\* the generators whose cache is followed, one of each key shape
CacheKinds == {"wfa", "wfl"}
\* the threads that serve requests
Threads == {1, 2}

NoArgs == [kind |-> "", sex |-> "", age |-> 0, z |-> 0]
NoKey == <<>>
IdleThread ==
    [pc |-> "idle", args |-> NoArgs, hit |-> FALSE, computed |-> FALSE,
     val |-> None, evicted |-> NoKey]

InitCacheVars ==
    /\ cache = [kind \in CacheKinds |-> <<>>]
    /\ th = [t \in Threads |-> IdleThread]

InitMore == InitPair /\ InitEasy /\ InitCacheVars

InitExt == InitZsc /\ InitNr /\ InitVel /\ InitMore

\* invert_zscore_function on arbitrary callables
InitInvert == InitInv /\ InitGen /\ InitCls /\ InitExt /\ calc = NoCalc

NextInvert ==
    \/ InvertCall
    \/ InvertNextTarget
    \/ SampleStep
    \/ SampleExit
    \/ BrentStart
    \/ BrentLoop

SpecInvert == InitInvert /\ [][NextInvert]_vars

(***************************************************************************)
(* What an inversion has observed of z_func, read from zs.                 *)
(***************************************************************************)
SampleIdx == 0..(Samples - 1)
SX(n) == Xs(lo, hi, n)
Evaluated(n) == SX(n) \in DOMAIN zs
Usable(n) == Evaluated(n) /\ zs[SX(n)] # None
F(n) == zs[SX(n)].v - target
\* m and n are usable samples with only unusable samples between them
ConsecUsable(m, n) ==
    /\ m < n /\ Usable(m) /\ Usable(n)
    /\ \A k \in SampleIdx : (m < k /\ k < n) => (Evaluated(k) /\ ~Usable(k))
StraddlePair(m, n) == ConsecUsable(m, n) /\ F(m) * F(n) < 0
NoStraddle == \A m, n \in SampleIdx : ~StraddlePair(m, n)
FirstStraddle(m, n) ==
    /\ StraddlePair(m, n)
    /\ \A p, q \in SampleIdx : StraddlePair(p, q) => n <= q

\* C1: whatever z_func returns, the value returned by invert_zscore_function
\* lies in [lo, hi], on the refinement, best-sample and midpoint paths alike.
InvertResultInBounds ==
    pc = "done" => (result # None /\ lo <= result.v /\ result.v <= hi)

\* a refinement ended on a z_func that returned None somewhere, lo < hi
WitnessBoundsRefinedWithNull ==
    /\ pc = "done" /\ path = "refine" /\ lo > 0 /\ lo < hi
    /\ \E x \in DOMAIN zs : zs[x] = None

\* C3: with no straddling pair of consecutive usable samples the result is
\* the earliest usable sample of least |z - target_z|, and the domain
\* midpoint when no sample is usable.
FallbackIsBestSampleOrMidpoint ==
    (pc = "done" /\ NoStraddle) =>
        IF \E n \in SampleIdx : Usable(n)
        THEN \E n \in SampleIdx :
                /\ Usable(n)
                /\ result = Num(SX(n))
                /\ \A k \in SampleIdx :
                      Usable(k) => /\ Abs(F(n)) <= Abs(F(k))
                                   /\ (k < n => Abs(F(k)) > Abs(F(n)))
        ELSE /\ \A n \in SampleIdx : Evaluated(n)
             /\ result # None
             /\ 2 * result.v = lo + hi

\* the best sample is returned where a later sample ties with it
WitnessBestSampleTie ==
    /\ pc = "done" /\ NoStraddle /\ lo < hi
    /\ \E n, k \in SampleIdx :
          /\ n < k /\ Usable(n) /\ Usable(k)
          /\ result = Num(SX(n))
          /\ Abs(F(n)) = Abs(F(k))

\* every sample was None and the midpoint came back
WitnessAllNullMidpoint ==
    /\ pc = "done" /\ lo < hi
    /\ \A n \in SampleIdx : Evaluated(n) /\ ~Usable(n)
    /\ 2 * result.v = lo + hi

\* C4: at the first straddling pair (x_prev, x) the inversion returns the
\* refinement of that pair: the result lies in [x_prev, x] and no sample
\* after x is evaluated.
FirstBracketIsRefinedAtOnce ==
    pc = "done" =>
        \A m, n \in SampleIdx :
            FirstStraddle(m, n) =>
                /\ path = "refine"
                /\ SX(m) <= result.v /\ result.v <= SX(n)
                /\ \A k \in SampleIdx : k > n => ~Evaluated(k)

\* a bracket found before the last sample, refined by at least one bisection
WitnessEarlyBracket ==
    /\ pc = "done"
    /\ \E m, n \in SampleIdx : FirstStraddle(m, n) /\ n < Samples - 1
    /\ iter >= 1

(***************************************************************************)
(* Round trip.  z_func is strictly increasing and never None exactly when  *)
(* what has been observed of it is; v can be the value the target was      *)
(* computed from, target_z = z_func(v), exactly when the observations      *)
(* leave room for it.                                                      *)
(***************************************************************************)
ObservedIncreasing ==
    /\ \A x \in DOMAIN zs : zs[x] # None
    /\ \A x, y \in DOMAIN zs : x < y => zs[x].v < zs[y].v

CouldBeRoot(v) ==
    /\ v \in lo..hi
    /\ v \in DOMAIN zs => zs[v].v = target
    /\ \A x \in DOMAIN zs : /\ x < v => zs[x].v < target
                            /\ x > v => zs[x].v > target

InversionIsBounded ==
    /\ i <= Samples
    /\ iter <= maxiter
    /\ \A n \in SampleIdx : n > i => (lo < hi => ~Evaluated(n))
    /\ nevals <= Samples + 2 + maxiter
    /\ nevals <= i + 1 + 2 + iter
    /\ pc \in {"sample", "brent", "bisect"} => ENABLED InvertStep

\* every sample was evaluated, the last one closed a bracket and the
\* refinement ran iterations
WitnessFullScanThenRefined ==
    /\ pc = "done" /\ path = "refine"
    /\ i = Samples - 1 /\ iter >= 2
    /\ nevals = Samples + 2 + iter

(***************************************************************************)
(* Points at which z_func returns None.                                    *)
(***************************************************************************)
NullPoints == {x \in DOMAIN zs : zs[x] = None}

\* the sampling never takes a None point for a bracket end or for the best
\* sample
NullSampleNeitherBracketsNorBest ==
    /\ pc = "brent" => (a \notin NullPoints /\ b \notin NullPoints)
    /\ best_x # None => best_x.v \notin NullPoints
    /\ last_x # None => last_x.v \notin NullPoints

\* C25: a point at which z_func returns None is unusable everywhere in the
\* inversion: it is never an end of a detected bracket, never the best
\* sample, never an end of the interval the bisection keeps, and never the
\* midpoint the refinement returns as the root, for any target_z,
\* target_z = 0 included.
NullPointIsUnusableEverywhere ==
    /\ NullSampleNeitherBracketsNorBest
    /\ pc = "bisect" => (a \notin NullPoints /\ b \notin NullPoints)
    /\ (pc = "done" /\ path = "refine") => result.v \notin NullPoints

\* target_z = 0: the bisection met a midpoint where z_func is None and
\* returned it as the root
WitnessNullMidpointReturnedAsRoot ==
    /\ pc = "done" /\ path = "refine" /\ target = 0 /\ iter >= 1
    /\ result.v \in NullPoints
    /\ result.v = MidPoint(a, b)

(***************************************************************************)
(* An exact hit: a sample whose Z-score is target_z.                       *)
(***************************************************************************)
ExactHit(n) == Evaluated(n) /\ Usable(n) /\ F(n) = 0

\* C29: for a strictly increasing z_func that is never None, a sample x_k
\* with z_func(x_k) = target_z closes no bracket (the sign test is strict),
\* no bisection is started, and the inversion returns exactly x_k by the
\* best-sample path.
ExactHitIsReturnedUnrefined ==
    (ObservedIncreasing /\ \E k \in SampleIdx : ExactHit(k)) =>
        /\ pc \notin {"brent", "bisect"}
        /\ NoStraddle
        /\ pc = "done" =>
              /\ path = "best"
              /\ iter = 0
              /\ \A k \in SampleIdx : ExactHit(k) => result = Num(SX(k))

\* the middle sample of an increasing z_func hits target_z and is returned
WitnessExactHitInTheMiddle ==
    /\ pc = "done" /\ ObservedIncreasing /\ lo < hi
    /\ ExactHit(1) /\ Usable(0) /\ Usable(2)
    /\ F(0) < 0 /\ F(2) > 0
    /\ result = Num(SX(1)) /\ path = "best"

(***************************************************************************)
(* Two inversions of one z_func.                                           *)
(***************************************************************************)
\* everything z_func has answered, to this inversion and the one before
Answers == zs @@ prev_zs

\* what has been observed of z_func is monotonic increasing over its
\* domain: None only below or above the supported values, and no value
\* above the value of a greater point
ObservedMonotonic ==
    LET pts == DOMAIN Answers IN
    /\ \A x, y, w \in pts :
          (x < y /\ y < w /\ Answers[x] # None /\ Answers[w] # None)
              => Answers[y] # None
    /\ \A x, y \in pts :
          (x < y /\ Answers[x] # None /\ Answers[y] # None)
              => Answers[x].v <= Answers[y].v

\* C28: for a z_func monotonic increasing over [lo, hi], the inversion is
\* monotonic in the target: the inversions of t1 <= t2 over the same
\* (lo, hi) return invert(t1) <= invert(t2), on the refinement and the
\* best-sample paths alike, targets outside the Z range of [lo, hi]
\* included.
InversionMonotonicInTarget ==
    (pc = "done" /\ prev_result # None /\ ObservedMonotonic) =>
        /\ prev_target <= target => prev_result.v <= result.v
        /\ target <= prev_target => result.v <= prev_result.v

\* the greater target lies above every Z-score of [lo, hi] and comes back
\* by the best-sample path, no lower than the result of the lower target
WitnessTargetAboveEveryZ ==
    /\ pc = "done" /\ prev_result # None /\ ObservedMonotonic /\ lo < hi
    /\ prev_target < target
    /\ path = "best"
    /\ \A n \in SampleIdx : Usable(n) /\ F(n) < 0
    /\ F(0) < F(Samples - 1)
    /\ prev_result.v <= result.v
    /\ result.v > lo

\* both targets refined inside a bracket, the lower one by bisection to a
\* point between two samples
WitnessBothTargetsRefined ==
    /\ pc = "done" /\ prev_result # None /\ ObservedMonotonic /\ lo < hi
    /\ prev_target < target
    /\ path = "refine"
    /\ prev_result.v \notin {SX(n) : n \in SampleIdx}
    /\ prev_result.v < result.v

(***************************************************************************)
(* Curve generation: generate_wfa_curve, generate_hfa_curve,               *)
(* generate_hcfa_curve (sex, z_score) and generate_wfl_curve (sex,         *)
(* age_months, z_score).  The four bodies differ in the calculator method, *)
(* the BOUNDS key and the grid.                                            *)
(***************************************************************************)
\* number of grid points of a curve
GridLen == 2

Kinds == {"wfa", "hfa", "hcfa", "wfl"}
Sexes == {"M", "F"}
CurveTargets == {-1, 0, 1}
WflAges == {0, 1}

\* config.BOUNDS['wfa'], ['hfa'], ['hcfa'], ['wfl_w']: the physiological
\* domain (lo, hi) of the dependent value, lo > 0
Bounds(kind) ==
    LET l == CASE kind = "wfa" -> 1 [] kind = "hfa" -> 3
               [] kind = "hcfa" -> 2 [] kind = "wfl" -> 1
    IN [lo |-> l, hi |-> l + (Samples - 1) * Step]

\* AGE_GRID = np.arange(0.0, 60.25, 0.25), in grid steps
AgeGrid == [j \in 1..GridLen |-> j - 1]
\* lengths = np.arange(BOUNDS['wfl_l'][0], BOUNDS['wfl_l'][1] + 0.5, 0.5)
Lengths == [j \in 1..GridLen |-> 4 + (j - 1)]

Grid(kind) == IF kind = "wfl" THEN Lengths ELSE AgeGrid

\* an empty array in place of np.zeros_like
ZerosLikeEmpty(g) == <<>>
\* np.zeros_like(AGE_GRID), np.zeros_like(lengths)
ZerosLike(g) == [j \in DOMAIN g |-> 0]

\* the closure lambda w: z_func(w, age) / lambda w: z_func(w, length)
CurveFunc(kind, sex, age, g) ==
    IF kind = "wfl"
    THEN SvcFunc("wfl", sex, age, g)
    ELSE SvcFunc(kind, sex, g, 0)

\* generate_*_curve up to its loop: calc = get_calculator(); if calc is None: ...
GenCall ==
    /\ Quiet
    /\ \E kind \in Kinds, sex \in Sexes, z \in CurveTargets,
          age \in WflAges :
          /\ kind # "wfl" => age = 0
          /\ gen_kind' = kind
          /\ gen_sex' = sex
          /\ gen_age' = age
          /\ gen_z' = z
          /\ gen_idx' = 1
          /\ gen_values' = <<>>
          /\ IF calc = NoCalc
             THEN /\ gen_ret' = [grid |-> Grid(kind),
                                 values |-> ZerosLike(Grid(kind))]
                  /\ gen_pc' = "ret"
             ELSE /\ gen_ret' = None
                  /\ gen_pc' = "loop"
    /\ UNCHANGED <<invVars, calc, clsVars>>
    /\ UNCHANGED extVars

\* for age in AGE_GRID: weight = invert_zscore_function(lambda w: ..., z_score, lo, hi)
GenInvert ==
    /\ gen_pc = "loop"
    /\ gen_idx <= GridLen
    /\ InvLocals(Bounds(gen_kind).lo, Bounds(gen_kind).hi, gen_z,
                 CurveFunc(gen_kind, gen_sex, gen_age, Grid(gen_kind)[gen_idx]))
    /\ gen_pc' = "inv"
    /\ UNCHANGED <<calc, gen_kind, gen_sex, gen_age, gen_z, gen_idx,
                   gen_values, gen_ret, clsVars>>
    /\ UNCHANGED extVars

\* weights.append(weight)
GenAppend ==
    /\ gen_pc = "inv"
    /\ pc = "done"
    /\ gen_values' = Append(gen_values, result.v)
    /\ gen_idx' = gen_idx + 1
    /\ gen_pc' = "loop"
    /\ pc' = "idle"
    /\ UNCHANGED <<zf, zs, target, lo, hi, i, last_x, last_f, best_x, best_abs,
                   a, b, fa, fb, iter, result, path, nevals>>
    /\ UNCHANGED <<calc, gen_kind, gen_sex, gen_age, gen_z, gen_ret, clsVars>>
    /\ UNCHANGED extVars

\* return AGE_GRID.copy(), np.array(weights)
GenReturn ==
    /\ gen_pc = "loop"
    /\ gen_idx > GridLen
    /\ gen_ret' = [grid |-> Grid(gen_kind), values |-> gen_values]
    /\ gen_pc' = "ret"
    /\ UNCHANGED <<invVars, calc, gen_kind, gen_sex, gen_age, gen_z, gen_idx,
                   gen_values, clsVars>>
    /\ UNCHANGED extVars

\* the module is imported with or without a working calculator
InitCurve ==
    /\ InitInv /\ InitGen /\ InitCls /\ InitExt
    /\ calc \in {NoCalc} \cup Services

NextCurve ==
    \/ GenCall
    \/ GenInvert
    \/ SampleStep
    \/ SampleExit
    \/ BrentStart
    \/ BrentLoop
    \/ GenAppend
    \/ GenReturn

SpecCurve == InitCurve /\ [][NextCurve]_vars

\* C2: every value of a returned curve lies in the curve kind's [lo, hi],
\* with or without a calculator.
CurveValuesInBounds ==
    gen_pc = "ret" =>
        \A j \in DOMAIN gen_ret.values :
            /\ Bounds(gen_kind).lo <= gen_ret.values[j]
            /\ gen_ret.values[j] <= Bounds(gen_kind).hi

\* with a calculator the values are inversion results, one per grid point,
\* and lie in [lo, hi]
CurveValuesInBoundsWithCalc ==
    (gen_pc = "ret" /\ calc # NoCalc) =>
        /\ Len(gen_ret.values) = Len(gen_ret.grid)
        /\ \A j \in DOMAIN gen_ret.values :
              /\ Bounds(gen_kind).lo <= gen_ret.values[j]
              /\ gen_ret.values[j] <= Bounds(gen_kind).hi

(***************************************************************************)
(* Classification: classify_permenkes_2020 and classify_who_standards.     *)
(* Z-scores are counted in halves: H(2) is Z = 2, 3 is Z = 1.5.            *)
(***************************************************************************)
\* Z-scores range over -ZHalfMax/2 .. ZHalfMax/2 in steps of 0.5
ZHalfMax == 7

Indicators == {"waz", "haz", "whz", "baz", "hcz"}
H(n) == 2 * n

Absent == [k |-> "absent", v |-> 0]
ZIn == {None, NaN} \cup {Num(h) : h \in -ZHalfMax..ZHalfMax}

\* the dictionaries passed to the classifiers: one indicator takes any
\* value, the others are None, 0.0 or missing from the dictionary
ZScoreDicts ==
    LET Ctx == {Absent, None, Num(0)}
        Entries == UNION {{[k \in Indicators |-> IF k = k0 THEN v ELSE c[k]] :
                              v \in ZIn \cup {Absent}, c \in [Indicators -> Ctx]} :
                          k0 \in Indicators}
    IN {[k \in {q \in Indicators : e[q] # Absent} |-> e[k]] : e \in Entries}

\* z_scores.get(key)
Get(d, key) == IF key \in DOMAIN d THEN d[key] ELSE None

\* if z is not None and not math.isnan(z)
IsNumberNoNaNCheck(z) == z # None
IsNumber(z) == z # None /\ z # NaN

\* the labels of each indicator, from the lowest band to the highest
PermenkesNA == "Data Tidak Tersedia"
PermenkesBands(key) ==
    CASE key = "waz" -> <<"Berat Badan Sangat Kurang", "Berat Badan Kurang",
                          "Berat Badan Normal", "Risiko Berat Badan Lebih">>
      [] key = "haz" -> <<"Sangat Pendek (Severely Stunted)", "Pendek (Stunted)",
                          "Tinggi Badan Normal", "Tinggi Badan Berlebih">>
      [] key = "whz" -> <<"Gizi Buruk (Severely Wasted)", "Gizi Kurang (Wasted)",
                          "Gizi Baik (Normal)",
                          "Berisiko Gizi Lebih (Possible Risk of Overweight)",
                          "Gizi Lebih (Overweight)">>
      [] key = "baz" -> <<"Gizi Buruk (Severely Wasted)", "Gizi Kurang (Wasted)",
                          "Gizi Baik (Normal)",
                          "Berisiko Gizi Lebih (Possible Risk of Overweight)",
                          "Gizi Lebih (Overweight)", "Obesitas (Obese)">>
      [] key = "hcz" -> <<"Mikrosefali (perlu evaluasi)", "Normal",
                          "Makrosefali (perlu evaluasi)">>

WhoNA == "N/A"
WhoBands(key) ==
    CASE key = "waz" -> <<"Severely underweight", "Underweight",
                          "Normal weight", "Overweight">>
      [] key = "haz" -> <<"Severely stunted", "Stunted", "Normal height", "Tall">>
      [] key = "whz" -> <<"Severely wasted", "Wasted", "Normal",
                          "Risk of overweight", "Overweight">>
      [] key = "baz" -> <<"Severely wasted", "Wasted", "Normal",
                          "Risk of overweight", "Overweight", "Obese">>
      [] key = "hcz" -> <<"Microcephaly", "Normal", "Macrocephaly">>

\* the if/elif chains of classify_permenkes_2020, as the index of the band
PermenkesWazBand(z) ==
    IF z < H(-3) THEN 1 ELSE IF z < H(-2) THEN 2 ELSE IF z <= H(2) THEN 3 ELSE 4

PermenkesHazBandSwapped(z) ==
    IF z < H(-3) THEN 2 ELSE IF z < H(-2) THEN 1 ELSE IF z <= H(3) THEN 3 ELSE 4
PermenkesHazBand(z) ==
    IF z < H(-3) THEN 1 ELSE IF z < H(-2) THEN 2 ELSE IF z <= H(3) THEN 3 ELSE 4

PermenkesWhzBandExclusive(z) ==
    IF z < H(-3) THEN 1 ELSE IF z < H(-2) THEN 2 ELSE IF z < H(2) THEN 3
    ELSE IF z <= H(3) THEN 4 ELSE 5
PermenkesWhzBand(z) ==
    IF z < H(-3) THEN 1 ELSE IF z < H(-2) THEN 2 ELSE IF z <= H(2) THEN 3
    ELSE IF z <= H(3) THEN 4 ELSE 5

PermenkesBazBand(z) ==
    IF z < H(-3) THEN 1 ELSE IF z < H(-2) THEN 2 ELSE IF z <= H(1) THEN 3
    ELSE IF z <= H(2) THEN 4 ELSE IF z <= H(3) THEN 5 ELSE 6

PermenkesHczBand(z) ==
    IF Abs(z) <= H(2) THEN 2 ELSE IF z < H(-2) THEN 1 ELSE 3

\* the if/elif chains of classify_who_standards
WhoWazBand(z) ==
    IF z < H(-3) THEN 1 ELSE IF z < H(-2) THEN 2 ELSE IF z <= H(2) THEN 3 ELSE 4

WhoHazBand(z) ==
    IF z < H(-3) THEN 1 ELSE IF z < H(-2) THEN 2 ELSE IF z <= H(3) THEN 3 ELSE 4

WhoWhzBand(z) ==
    IF z < H(-3) THEN 1 ELSE IF z < H(-2) THEN 2 ELSE IF z <= H(2) THEN 3
    ELSE IF z <= H(3) THEN 4 ELSE 5

\* "Normal" up to baz <= 2 and no risk band
WhoBazBandNormalTo2(z) ==
    IF z < H(-3) THEN 1 ELSE IF z < H(-2) THEN 2 ELSE IF z <= H(2) THEN 3
    ELSE IF z <= H(3) THEN 5 ELSE 6
WhoBazBand(z) ==
    IF z < H(-3) THEN 1 ELSE IF z < H(-2) THEN 2 ELSE IF z <= H(1) THEN 3
    ELSE IF z <= H(2) THEN 4 ELSE IF z <= H(3) THEN 5 ELSE 6

WhoHczBand(z) ==
    IF Abs(z) <= H(2) THEN 2 ELSE IF z < H(-2) THEN 1 ELSE 3

PermenkesBand(key, z) ==
    CASE key = "waz" -> PermenkesWazBand(z) [] key = "haz" -> PermenkesHazBand(z)
      [] key = "whz" -> PermenkesWhzBand(z) [] key = "baz" -> PermenkesBazBand(z)
      [] key = "hcz" -> PermenkesHczBand(z)

WhoBand(key, z) ==
    CASE key = "waz" -> WhoWazBand(z) [] key = "haz" -> WhoHazBand(z)
      [] key = "whz" -> WhoWhzBand(z) [] key = "baz" -> WhoBazBand(z)
      [] key = "hcz" -> WhoHczBand(z)

PermenkesLabel(key, z) ==
    IF IsNumber(z) THEN PermenkesBands(key)[PermenkesBand(key, z.v)]
    ELSE PermenkesNA

WhoLabel(key, z) ==
    IF IsNumber(z) THEN WhoBands(key)[WhoBand(key, z.v)]
    ELSE WhoNA

classify_permenkes_2020(d) ==
    [key \in Indicators |-> PermenkesLabel(key, Get(d, key))]

classify_who_standards(d) ==
    [key \in Indicators |-> WhoLabel(key, Get(d, key))]

\* permenkes = classify_permenkes_2020(zscores)
ClassifyPermenkes ==
    /\ cls_pc = "idle"
    /\ \E d \in ZScoreDicts :
          /\ z_scores' = d
          /\ permenkes' = classify_permenkes_2020(d)
    /\ cls_pc' = "permenkes"
    /\ UNCHANGED <<who, invVars, genVars>>
    /\ UNCHANGED extVars

\* who_class = classify_who_standards(zscores)
ClassifyWho ==
    /\ cls_pc = "permenkes"
    /\ who' = classify_who_standards(z_scores)
    /\ cls_pc' = "done"
    /\ UNCHANGED <<z_scores, permenkes, invVars, genVars>>
    /\ UNCHANGED extVars

InitClassify == InitInv /\ InitGen /\ InitCls /\ InitExt /\ calc = NoCalc

NextClassify ==
    \/ ClassifyPermenkes
    \/ ClassifyWho

SpecClassify == InitClassify /\ [][NextClassify]_vars

\* the position of a label among the bands of its indicator
BandIndex(bands, label) == CHOOSE n \in DOMAIN bands : bands[n] = label
IsBandOf(bands, label) == \E n \in DOMAIN bands : bands[n] = label
ZGrid == -ZHalfMax..ZHalfMax

\* C7: for each indicator and each taxonomy a finite Z-score gets a band
\* label, never the unavailable label, and the band does not go down as Z
\* goes up.
BandsPartitionTheLine ==
    cls_pc = "done" =>
        \A key \in Indicators :
            LET z == Get(z_scores, key) IN
            z.k = "num" =>
                /\ IsBandOf(PermenkesBands(key), permenkes[key])
                /\ permenkes[key] # PermenkesNA
                /\ IsBandOf(WhoBands(key), who[key])
                /\ who[key] # WhoNA
                /\ \A h \in ZGrid :
                      h >= z.v =>
                        /\ BandIndex(PermenkesBands(key), PermenkesLabel(key, Num(h)))
                             >= BandIndex(PermenkesBands(key), permenkes[key])
                        /\ BandIndex(WhoBands(key), WhoLabel(key, Num(h)))
                             >= BandIndex(WhoBands(key), who[key])

\* a height-for-age Z below -3 classified into the lowest band of both
WitnessLowestHazBand ==
    /\ cls_pc = "done"
    /\ "haz" \in DOMAIN z_scores
    /\ z_scores["haz"].k = "num" /\ z_scores["haz"].v < H(-3)
    /\ permenkes["haz"] = "Sangat Pendek (Severely Stunted)"
    /\ who["haz"] = "Severely stunted"

\* C8: weight-for-height in both taxonomies: whz < -3 severe, [-3,-2)
\* moderate, [-2,2] normal, (2,3] risk of overweight, > 3 overweight.
WhzEdgeSemantics ==
    cls_pc = "done" =>
        LET z == Get(z_scores, "whz") IN
        z.k = "num" =>
            /\ z.v < -6 =>
                  /\ permenkes["whz"] = "Gizi Buruk (Severely Wasted)"
                  /\ who["whz"] = "Severely wasted"
            /\ (-6 <= z.v /\ z.v < -4) =>
                  /\ permenkes["whz"] = "Gizi Kurang (Wasted)"
                  /\ who["whz"] = "Wasted"
            /\ (-4 <= z.v /\ z.v <= 4) =>
                  /\ permenkes["whz"] = "Gizi Baik (Normal)"
                  /\ who["whz"] = "Normal"
            /\ (4 < z.v /\ z.v <= 6) =>
                  /\ permenkes["whz"] = "Berisiko Gizi Lebih (Possible Risk of Overweight)"
                  /\ who["whz"] = "Risk of overweight"
            /\ z.v > 6 =>
                  /\ permenkes["whz"] = "Gizi Lebih (Overweight)"
                  /\ who["whz"] = "Overweight"

\* whz = 2 exactly, classified normal
WitnessWhzTwoIsNormal ==
    /\ cls_pc = "done"
    /\ "whz" \in DOMAIN z_scores
    /\ z_scores["whz"] = Num(4)
    /\ permenkes["whz"] = "Gizi Baik (Normal)"
    /\ who["whz"] = "Normal"

\* C9 as stated: Permenkes labels baz in [-2,1] normal, the WHO taxonomy
\* labels baz in [-2,2] normal, so 1 < baz <= 2 is normal under WHO and not
\* normal under Permenkes.
BazNormalBandsDisagree ==
    cls_pc = "done" =>
        LET z == Get(z_scores, "baz") IN
        z.k = "num" =>
            /\ (-4 <= z.v /\ z.v <= 2) => permenkes["baz"] = "Gizi Baik (Normal)"
            /\ (-4 <= z.v /\ z.v <= 4) => who["baz"] = "Normal"
            /\ (2 < z.v /\ z.v <= 4) => permenkes["baz"] # "Gizi Baik (Normal)"

\* C9 as amended: both taxonomies label baz in [-2,1] normal and
\* 1 < baz <= 2 risk of overweight.
BazNormalBandsAgree ==
    cls_pc = "done" =>
        LET z == Get(z_scores, "baz") IN
        z.k = "num" =>
            /\ (-4 <= z.v /\ z.v <= 2) =>
                  /\ permenkes["baz"] = "Gizi Baik (Normal)"
                  /\ who["baz"] = "Normal"
            /\ (2 < z.v /\ z.v <= 4) =>
                  /\ permenkes["baz"] = "Berisiko Gizi Lebih (Possible Risk of Overweight)"
                  /\ who["baz"] = "Risk of overweight"

\* baz = 1.5 classified by both
WitnessBazOneAndAHalf ==
    /\ cls_pc = "done"
    /\ "baz" \in DOMAIN z_scores
    /\ z_scores["baz"] = Num(3)
    /\ who["baz"] = "Risk of overweight"

\* C10: a Z-score that is None, NaN or missing from the dictionary gets the
\* taxonomy's unavailable label, and both results have exactly the five keys.
MissingScoreIsUnavailable ==
    cls_pc = "done" =>
        /\ DOMAIN permenkes = Indicators
        /\ DOMAIN who = Indicators
        /\ \A key \in Indicators :
              (key \notin DOMAIN z_scores \/ z_scores[key] \in {None, NaN}) =>
                  /\ permenkes[key] = "Data Tidak Tersedia"
                  /\ who[key] = "N/A"

\* one key missing, one NaN, one None in the same dictionary
WitnessMissingNaNAndNone ==
    /\ cls_pc = "done"
    /\ \E k1, k2, k3 \in Indicators :
          /\ k1 \notin DOMAIN z_scores
          /\ k2 \in DOMAIN z_scores /\ z_scores[k2] = NaN
          /\ k3 \in DOMAIN z_scores /\ z_scores[k3] = None
          /\ permenkes[k1] = "Data Tidak Tersedia" /\ who[k2] = "N/A"

(***************************************************************************)
(* Z-score engine: calculate_all_zscores and its caller                    *)
(* kalkulator_who_handler.  Ages are months; weight, height and head       *)
(* circumference are counted in the x units of the service.                *)
(***************************************************************************)
\* largest measurement value
MeasMax == 4

ZAges == {-1, 0, 9, 60, 61}
Meas == {None} \cup {Num(n) : n \in -1..MeasMax}
ZInputs ==
    [sex : Sexes, age : ZAges, weight : Meas, height : Meas, head : Meas]

\* results = {'waz': None, 'haz': None, 'whz': None, 'baz': None, 'hcz': None}
AllNull == [key \in Indicators |-> None]

\* 100 ** 2 of  weight / ((height / 100) ** 2), in model units
BmiScale == 4
Bmi(w, h) == (w * BmiScale) \div (h * h)

\* the conditions under which calculate_all_zscores computes each indicator
ComputesWaz(in) == in.weight # None
ComputesHaz(in) == in.height # None
ComputesWhz(in) == in.weight # None /\ in.height # None
ComputesBaz(in) == in.weight # None /\ in.height # None /\ in.height.v > 0
ComputesHcz(in) == in.head # None

\* the calculator method and the arguments used for an indicator
ZArgs(key, in) ==
    CASE key = "waz" -> [kind |-> "wfa", x |-> in.weight.v, aux |-> 0]
      [] key = "haz" -> [kind |-> "hfa", x |-> in.height.v, aux |-> 0]
      [] key = "whz" -> [kind |-> "wfl", x |-> in.weight.v,
                         aux |-> in.height.v]
      [] key = "baz" -> [kind |-> "bmifa",
                         x |-> Bmi(in.weight.v, in.height.v), aux |-> 0]
      [] key = "hcz" -> [kind |-> "hcfa", x |-> in.head.v, aux |-> 0]

Computes(key, in) ==
    CASE key = "waz" -> ComputesWaz(in)
      [] key = "haz" -> ComputesHaz(in)
      [] key = "whz" -> ComputesWhz(in)
      [] key = "baz" -> ComputesBaz(in)
      [] key = "hcz" -> ComputesHcz(in)

\* results[key] = _safe_z_calc(calc.<kind>, x, age_months, sex[, height])
ZField(c, key, in) ==
    LET g == ZArgs(key, in) IN
    SafeZCalc(c, g.kind, g.x, in.age, in.sex, g.aux)

calculate_all_zscores(c, in) ==
    IF c = NoCalc
    THEN AllNull
    ELSE [key \in Indicators |->
            IF Computes(key, in) THEN ZField(c, key, in) ELSE None]

\* the number of calculator methods calculate_all_zscores calls
ZCalls(c, in) ==
    IF c = NoCalc THEN 0
    ELSE Cardinality({key \in Indicators : Computes(key, in)})

\* a direct call of calculate_all_zscores(sex, age_months, weight, height,
\* head_circ)
CallCalculateAllZScores ==
    /\ Quiet
    /\ \E in \in ZInputs :
          /\ zsc_in' = in
          /\ zsc_out' = calculate_all_zscores(calc, in)
          /\ zsc_calls' = ZCalls(calc, in)
    /\ zsc_ret' = "results"
    /\ zsc_pc' = "done"
    /\ UNCHANGED <<invVars, genVars, clsVars, nrVars, velVars, moreVars>>

\* utilities.validate_anthropometry(bb, tb, lk, age_months, sex_code)['valid']
validate_anthropometry(bb, tb, lk) ==
    /\ bb.v > 0
    /\ tb.v > 0
    /\ lk # None => lk.v > 0

AgeMin == 0
AgeMax == 60

\* kalkulator_who_handler from the parsed inputs to the classifications
kalkulator_who_handler ==
    /\ Quiet
    /\ \E in \in ZInputs :
          /\ zsc_in' = in
          /\ IF in.age < AgeMin \/ in.age > AgeMax
             THEN /\ zsc_ret' = "age_error"
                  /\ zsc_out' = <<>> /\ zsc_calls' = 0
                  /\ UNCHANGED clsVars
             ELSE IF in.weight = None \/ in.height = None
             THEN /\ zsc_ret' = "missing_error"
                  /\ zsc_out' = <<>> /\ zsc_calls' = 0
                  /\ UNCHANGED clsVars
             ELSE IF ~validate_anthropometry(in.weight, in.height, in.head)
             THEN /\ zsc_ret' = "invalid_error"
                  /\ zsc_out' = <<>> /\ zsc_calls' = 0
                  /\ UNCHANGED clsVars
             ELSE LET z == calculate_all_zscores(calc, in) IN
                  /\ zsc_out' = z
                  /\ zsc_calls' = ZCalls(calc, in)
                  /\ IF \A key \in Indicators : z[key] = None
                     THEN /\ zsc_ret' = "zscore_error"
                          /\ UNCHANGED clsVars
                     ELSE /\ zsc_ret' = "report"
                          /\ z_scores' = z
                          /\ permenkes' = classify_permenkes_2020(z)
                          /\ who' = classify_who_standards(z)
                          /\ cls_pc' = "done"
    /\ zsc_pc' = "done"
    /\ UNCHANGED <<invVars, genVars, nrVars, velVars, moreVars>>

\* the module is imported with or without a working calculator
InitZScore ==
    /\ InitInv /\ InitGen /\ InitCls /\ InitExt
    /\ calc \in {NoCalc} \cup Services

NextZScore ==
    \/ CallCalculateAllZScores
    \/ kalkulator_who_handler

SpecZScore == InitZScore /\ [][NextZScore]_vars

\* what the calculator answers to the call made for an indicator
RawAnswer(key) ==
    LET g == ZArgs(key, zsc_in) IN
    SvcRaw(calc, g.kind, g.x, zsc_in.age, zsc_in.sex, g.aux)

IsFinite(z) == z.k = "num"

\* every call calculate_all_zscores makes is answered with a finite number
AnswersFinite ==
    \A key \in Indicators : Computes(key, zsc_in) => IsFinite(RawAnswer(key))

Returned == zsc_pc = "done" /\ zsc_ret = "results"

\* C11: calculate_all_zscores never fails on missing inputs and returns
\* exactly the five fields; when the calculator answers finite values, waz
\* is non-null iff weight is supplied, haz iff height is supplied, whz and
\* baz iff weight and height are both supplied, hcz iff head circumference
\* is supplied, and a null field is labelled unavailable.
FieldsFollowSuppliedInputs ==
    Returned =>
        /\ DOMAIN zsc_out = Indicators
        /\ (calc # NoCalc /\ AnswersFinite) =>
              /\ zsc_out["waz"] # None <=> zsc_in.weight # None
              /\ zsc_out["haz"] # None <=> zsc_in.height # None
              /\ zsc_out["whz"] # None <=>
                     (zsc_in.weight # None /\ zsc_in.height # None)
              /\ zsc_out["baz"] # None <=>
                     (zsc_in.weight # None /\ zsc_in.height # None)
              /\ zsc_out["hcz"] # None <=> zsc_in.head # None
              /\ \A key \in Indicators :
                    zsc_out[key] = None =>
                        /\ classify_permenkes_2020(zsc_out)[key] = PermenkesNA
                        /\ classify_who_standards(zsc_out)[key] = WhoNA

\* every supplied measurement is positive
SuppliedPositive(in) ==
    /\ in.weight # None => in.weight.v > 0
    /\ in.height # None => in.height.v > 0
    /\ in.head # None => in.head.v > 0

\* the same on inputs whose supplied measurements are positive
FieldsFollowSuppliedPositiveInputs ==
    (Returned /\ SuppliedPositive(zsc_in)) => FieldsFollowSuppliedInputs

\* weight and height without head circumference, all answers finite
WitnessWeightHeightNoHead ==
    /\ Returned /\ calc # NoCalc /\ AnswersFinite
    /\ SuppliedPositive(zsc_in)
    /\ zsc_in.weight # None /\ zsc_in.height # None /\ zsc_in.head = None
    /\ zsc_out["baz"] # None /\ zsc_out["hcz"] = None


\* a call of calculate_all_zscores has returned, directly or in the handler
Computed == zsc_pc = "done" /\ zsc_ret \in {"results", "zscore_error", "report"}

\* C12: every Z-score field is null or a finite number.  A calculator answer
\* that is None, NaN, +inf or -inf, or a calculator call that raises, gives
\* a null field, never an error and never a non-finite value, and each
\* field depends on the answer to its own call only.
FieldsNullOrFinite ==
    Computed =>
        /\ DOMAIN zsc_out = Indicators
        /\ \A key \in Indicators :
              /\ zsc_out[key] = None \/ IsFinite(zsc_out[key])
              /\ (calc # NoCalc /\ Computes(key, zsc_in)) =>
                    zsc_out[key] = IF IsFinite(RawAnswer(key))
                                   THEN RawAnswer(key)
                                   ELSE None

\* one call answered with a non-finite value or an exception, another call
\* of the same invocation answered with a number
WitnessNonFiniteAnswerBesideFinite ==
    /\ Returned /\ calc # NoCalc
    /\ Computes("waz", zsc_in) /\ Computes("haz", zsc_in)
    /\ RawAnswer("waz") \in {NaN, Inf, NegInf, Raise}
    /\ zsc_out["waz"] = None
    /\ IsFinite(RawAnswer("haz")) /\ zsc_out["haz"] = RawAnswer("haz")


\* the inputs the specification rejects: age outside [0, 60] months or a
\* supplied measurement that is not positive
InvalidInput(in) ==
    \/ in.age < AgeMin \/ in.age > AgeMax
    \/ ~SuppliedPositive(in)

\* the call ended with a validation message instead of Z-scores
Failed ==
    zsc_ret \in {"age_error", "missing_error", "invalid_error", "zscore_error"}

\* C13: the Z-score calculation fails with a validation error, computing
\* no Z-score and calling the calculator zero times, exactly when the age
\* is outside [0, 60] months or a supplied weight, height or head
\* circumference is <= 0; for every other input it does not fail.
FailsExactlyOnInvalidInput ==
    zsc_pc = "done" =>
        /\ InvalidInput(zsc_in) =>
              /\ Failed
              /\ zsc_calls = 0
              /\ zsc_out = <<>>
        /\ ~InvalidInput(zsc_in) => ~Failed

\* what the handler does: it rejects an age outside [0, 60] before any
\* calculator call, and it also rejects inputs the specification accepts
HandlerRejectsAgeOutOfRange ==
    (zsc_pc = "done" /\ zsc_ret # "results") =>
        /\ (zsc_in.age < AgeMin \/ zsc_in.age > AgeMax) =>
              /\ zsc_ret = "age_error"
              /\ zsc_calls = 0
              /\ zsc_out = <<>>
        /\ InvalidInput(zsc_in) => Failed /\ zsc_calls = 0

\* calculate_all_zscores called with age -1 answers with Z-scores
WitnessNegativeAgeComputed ==
    /\ Returned
    /\ zsc_in.age = -1
    /\ zsc_calls > 0
    /\ \E key \in Indicators : zsc_out[key] # None

\* the handler rejects a valid input for lack of a weight
WitnessHandlerRejectsMissingWeight ==
    /\ zsc_pc = "done" /\ zsc_ret = "missing_error"
    /\ ~InvalidInput(zsc_in)


(***************************************************************************)
(* Growth velocity: analyze_growth_velocity (modules/kejar_tumbuh.py).     *)
(* Ages are months; a mid-interval age is counted in half months (H(3) is  *)
(* 3 months).  Weights are counted in 0.1 kg and heights in 0.1 cm; a      *)
(* rounded weight velocity is counted in 0.001 kg/month and a rounded      *)
(* height velocity in 0.01 cm/month, the precision they are rounded to.    *)
(***************************************************************************)
\* longest data_list
MaxMeasurements == 3

VelAges == {6, 9, 12}
\* (bb, tb)
VelSizes == {<<75, 660>>, <<88, 720>>, <<95, 760>>, <<88, 660>>}
VelMeasurements ==
    {[usia_bulan |-> age, bb |-> sz[1], tb |-> sz[2]] :
        age \in VelAges, sz \in VelSizes}
DataLists == UNION {[1..n -> VelMeasurements] : n \in 0..MaxMeasurements}
Genders == {"Laki-laki", "Perempuan"}

\* kg/month in 0.001, cm/month in 0.01
GROWTH_VELOCITY_REFERENCE ==
    [r0_3 |->
        [weight_male |-> <<800, 1300>>, weight_female |-> <<700, 1200>>,
         height_male |-> <<300, 400>>, height_female |-> <<280, 380>>],
     r3_6 |->
        [weight_male |-> <<500, 900>>, weight_female |-> <<400, 800>>,
         height_male |-> <<200, 280>>, height_female |-> <<180, 260>>],
     r6_9 |->
        [weight_male |-> <<300, 600>>, weight_female |-> <<300, 500>>,
         height_male |-> <<130, 180>>, height_female |-> <<120, 170>>],
     r9_12 |->
        [weight_male |-> <<200, 500>>, weight_female |-> <<200, 400>>,
         height_male |-> <<100, 150>>, height_female |-> <<90, 140>>],
     r12_24 |->
        [weight_male |-> <<150, 350>>, weight_female |-> <<150, 300>>,
         height_male |-> <<80, 120>>, height_female |-> <<70, 110>>],
     r24_60 |->
        [weight_male |-> <<100, 250>>, weight_female |-> <<100, 200>>,
         height_male |-> <<50, 80>>, height_female |-> <<50, 70>>]]

\* "male" if str(sex).upper().startswith(("M", "L")) else "female"
SexKey(sex) == IF sex \in {"Laki-laki", "M", "L"} THEN "male" ELSE "female"

\* the if / elif chain of get_velocity_reference with <= for <
RangeKeyBoundaryInclusive(age_half) ==
    IF age_half <= H(3) THEN "r0_3"
    ELSE IF age_half <= H(6) THEN "r3_6"
    ELSE IF age_half <= H(9) THEN "r6_9"
    ELSE IF age_half <= H(12) THEN "r9_12"
    ELSE IF age_half <= H(24) THEN "r12_24"
    ELSE "r24_60"

\* the if / elif chain of get_velocity_reference
RangeKey(age_half) ==
    IF age_half < H(3) THEN "r0_3"
    ELSE IF age_half < H(6) THEN "r3_6"
    ELSE IF age_half < H(9) THEN "r6_9"
    ELSE IF age_half < H(12) THEN "r9_12"
    ELSE IF age_half < H(24) THEN "r12_24"
    ELSE "r24_60"

get_velocity_reference(age_half, sex) ==
    LET range_key == RangeKey(age_half)
        ref == GROWTH_VELOCITY_REFERENCE[range_key]
    IN [weight_range |-> IF SexKey(sex) = "male"
                         THEN ref.weight_male ELSE ref.weight_female,
        height_range |-> IF SexKey(sex) = "male"
                         THEN ref.height_male ELSE ref.height_female,
        age_range |-> range_key]

\* the test  velocity < 0  read as  velocity <= 0
IsDeclineOrZero(velocity) == velocity <= 0
\* velocity < 0
IsDecline(velocity) == velocity < 0

evaluate_velocity(velocity, reference_range, measure_type) ==
    LET min_normal == reference_range[1]
        max_normal == reference_range[2]
    IN IF IsDecline(velocity)
       THEN [status |-> "Penurunan", severity |-> "critical",
             measure |-> measure_type]
       ELSE IF 2 * velocity < min_normal
       THEN [status |-> "Sangat Lambat", severity |-> "warning",
             measure |-> measure_type]
       ELSE IF velocity < min_normal
       THEN [status |-> "Lambat", severity |-> "attention",
             measure |-> measure_type]
       ELSE IF velocity <= max_normal
       THEN [status |-> "Normal", severity |-> "normal",
             measure |-> measure_type]
       ELSE [status |-> "Cepat", severity |-> "good",
             measure |-> measure_type]

\* round(n / d, ndigits) in units of the last digit kept (d > 0): the
\* nearest integer to n / d.  When n / d is halfway between two integers
\* the float quotient is not, and round() follows its binary
\* representation; the model takes the even neighbour.  No velocity of the
\* data lists below is a tie (their delta_months are 3 and 6); an average
\* can be.
Round(n, d) ==
    LET q == n \div d
        r == n % d
    IN IF 2 * r < d THEN q
       ELSE IF 2 * r > d THEN q + 1
       ELSE IF q % 2 = 0 THEN q ELSE q + 1

\* velocity_bb = delta_bb without the division by delta_months
VelocityUndivided(delta, delta_months, scale) == Round(delta * scale, 1)
\* round(delta / delta_months, ndigits)
Velocity(delta, delta_months, scale) == Round(delta * scale, delta_months)

calculate_velocity(data1, data2) ==
    LET delta_months == data2.usia_bulan - data1.usia_bulan
        delta_bb == data2.bb - data1.bb
        delta_tb == data2.tb - data1.tb
    IN IF delta_months <= 0
       THEN None
       ELSE [periode |-> <<data1.usia_bulan, data2.usia_bulan>>,
             delta_months |-> delta_months,
             delta_bb |-> delta_bb,
             delta_tb |-> delta_tb,
             velocity_bb |-> Velocity(delta_bb, delta_months, 100),
             velocity_tb |-> Velocity(delta_tb, delta_months, 10),
             mid_age |-> data1.usia_bulan + data2.usia_bulan]

\* sorted() that leaves the list as it is
SortedAsGiven(data_list) == data_list

RECURSIVE InsertByAgeBeforeEqual(_, _)
\* m goes before the elements of its own age
InsertByAgeBeforeEqual(m, seq) ==
    IF seq = <<>> THEN <<m>>
    ELSE IF m.usia_bulan <= Head(seq).usia_bulan
    THEN <<m>> \o seq
    ELSE <<Head(seq)>> \o InsertByAgeBeforeEqual(m, Tail(seq))

RECURSIVE InsertByAge(_, _)
\* m goes after every element whose age is not greater than its own
InsertByAge(m, seq) ==
    IF seq = <<>> THEN <<m>>
    ELSE IF m.usia_bulan < Head(seq).usia_bulan
    THEN <<m>> \o seq
    ELSE <<Head(seq)>> \o InsertByAge(m, Tail(seq))

RECURSIVE Sorted(_)
\* sorted(data_list, key=lambda x: x['usia_bulan']): stable
Sorted(data_list) ==
    IF data_list = <<>> THEN <<>>
    ELSE InsertByAge(data_list[Len(data_list)],
                     Sorted(SubSeq(data_list, 1, Len(data_list) - 1)))

\* range(len(sorted_data) - 2)
PairCountShort(sorted_data) == Len(sorted_data) - 2
\* range(len(sorted_data) - 1)
PairCount(sorted_data) == Len(sorted_data) - 1

RECURSIVE Velocities(_, _)
\* for i in range(len(sorted_data) - 1): ... if vel: velocities.append(vel)
Velocities(sorted_data, n) ==
    IF n > PairCount(sorted_data) THEN <<>>
    ELSE LET vel == calculate_velocity(sorted_data[n], sorted_data[n + 1])
         IN (IF vel # None THEN <<vel>> ELSE <<>>)
                \o Velocities(sorted_data, n + 1)

Evaluation(vel, gender) ==
    LET ref == get_velocity_reference(vel.mid_age, gender)
    IN [vel |-> vel,
        reference |-> ref,
        bb_evaluation |->
            evaluate_velocity(vel.velocity_bb, ref.weight_range,
                              "berat badan"),
        tb_evaluation |->
            evaluate_velocity(vel.velocity_tb, ref.height_range,
                              "tinggi badan")]

RECURSIVE Sum(_, _)
Sum(seq, n) == IF n > Len(seq) THEN 0 ELSE seq[n] + Sum(seq, n + 1)

CountSeverity(evaluations, severity) ==
    Cardinality({n \in DOMAIN evaluations :
                    \/ evaluations[n].bb_evaluation.severity = severity
                    \/ evaluations[n].tb_evaluation.severity = severity})

OverallStatus(evaluations) ==
    IF CountSeverity(evaluations, "critical") > 0 THEN "critical"
    ELSE IF CountSeverity(evaluations, "warning") > 0 THEN "warning"
    ELSE "normal"

\* the message written beside each overall status
OverallMessage(overall_status) ==
    CASE overall_status = "critical" ->
             "PERHATIAN: Terdeteksi penurunan atau pertumbuhan sangat lambat"
      [] overall_status = "warning" ->
             "Perlu perhatian: pertumbuhan di bawah rata-rata"
      [] OTHER -> "Pertumbuhan keseluruhan dalam rentang normal"

\* the totals taken from the second measurement instead of the first
SummaryTotalsFromSecond(sorted_data, velocities, evaluations) ==
    LET first == sorted_data[2]
        last == sorted_data[Len(sorted_data)]
    IN [total_measurements |-> Len(sorted_data),
        total_periods |-> Len(velocities),
        total_months |-> last.usia_bulan - first.usia_bulan,
        total_delta_bb |-> last.bb - first.bb,
        total_delta_tb |-> last.tb - first.tb,
        avg_velocity_bb |->
            Round(Sum([n \in DOMAIN velocities |-> velocities[n].velocity_bb],
                      1), Len(velocities)),
        avg_velocity_tb |->
            Round(Sum([n \in DOMAIN velocities |-> velocities[n].velocity_tb],
                      1), Len(velocities)),
        overall_status |-> OverallStatus(evaluations),
        overall_message |-> OverallMessage(OverallStatus(evaluations))]

Summary(sorted_data, velocities, evaluations) ==
    LET first == sorted_data[1]
        last == sorted_data[Len(sorted_data)]
    IN [total_measurements |-> Len(sorted_data),
        total_periods |-> Len(velocities),
        total_months |-> last.usia_bulan - first.usia_bulan,
        total_delta_bb |-> last.bb - first.bb,
        total_delta_tb |-> last.tb - first.tb,
        avg_velocity_bb |->
            Round(Sum([n \in DOMAIN velocities |-> velocities[n].velocity_bb],
                      1), Len(velocities)),
        avg_velocity_tb |->
            Round(Sum([n \in DOMAIN velocities |-> velocities[n].velocity_tb],
                      1), Len(velocities)),
        overall_status |-> OverallStatus(evaluations),
        overall_message |-> OverallMessage(OverallStatus(evaluations))]

TooFewResult == [success |-> FALSE, error |-> "Minimal 2 pengukuran"]
NoVelocityResult ==
    [success |-> FALSE, error |-> "Tidak dapat menghitung velocity"]

\* len(data_list) < 3
TooFewBelowThree(data_list) == Len(data_list) < 3
\* len(data_list) < 2
TooFew(data_list) == Len(data_list) < 2

analyze_growth_velocity(data_list, gender) ==
    IF TooFew(data_list)
    THEN TooFewResult
    ELSE LET sorted_data == Sorted(data_list)
             velocities == Velocities(sorted_data, 1)
         IN IF velocities = <<>>
            THEN NoVelocityResult
            ELSE LET evaluations ==
                         [n \in DOMAIN velocities |->
                             Evaluation(velocities[n], gender)]
                 IN [success |-> TRUE,
                     data |-> sorted_data,
                     velocities |-> velocities,
                     evaluations |-> evaluations,
                     summary |-> Summary(sorted_data, velocities,
                                         evaluations),
                     gender |-> gender]

\* a call of analyze_growth_velocity(data_list, gender)
CallAnalyzeGrowthVelocity ==
    /\ Quiet
    /\ \E data_list \in DataLists, gender \in Genders :
          /\ vel_data' = data_list
          /\ vel_gender' = gender
          /\ vel_out' = analyze_growth_velocity(data_list, gender)
    /\ vel_pc' = "done"
    /\ UNCHANGED <<invVars, genVars, clsVars, zscVars, nrVars, moreVars>>

InitVelocity == InitInv /\ InitGen /\ InitCls /\ InitExt /\ calc = NoCalc

NextVelocity == CallAnalyzeGrowthVelocity

SpecVelocity == InitVelocity /\ [][NextVelocity]_vars


VelDone == vel_pc = "done"

Ages(data_list) == {data_list[n].usia_bulan : n \in DOMAIN data_list}

\* some adjacent pair of the age-sorted measurements has delta_months > 0
HasValidInterval(data_list) ==
    LET sorted_data == Sorted(data_list) IN
    \E n \in 1..(Len(sorted_data) - 1) :
        sorted_data[n + 1].usia_bulan - sorted_data[n].usia_bulan > 0

\* some adjacent pair of the age-sorted measurements has delta_months <= 0
HasDegeneratePair(data_list) ==
    LET sorted_data == Sorted(data_list) IN
    \E n \in 1..(Len(sorted_data) - 1) :
        sorted_data[n + 1].usia_bulan - sorted_data[n].usia_bulan <= 0

\* C15: analyze_growth_velocity reports a validation failure (success =
\* False, no intervals, no summary) exactly when fewer than 2 measurements
\* are supplied or no adjacent pair of the age-sorted measurements has
\* delta_months > 0; a pair with delta_months <= 0 does not fail the batch
\* while a valid interval remains.
FailsExactlyWithoutValidInterval ==
    VelDone =>
        LET fails == Len(vel_data) < 2 \/ ~HasValidInterval(vel_data) IN
        /\ fails <=> ~vel_out.success
        /\ fails => DOMAIN vel_out = {"success", "error"}
        /\ ~fails =>
              /\ {"velocities", "evaluations", "summary"} \subseteq
                     DOMAIN vel_out
              /\ Len(vel_out.velocities) >= 1

\* a degenerate pair beside a valid interval: the analysis succeeds
WitnessDegeneratePairTolerated ==
    /\ VelDone
    /\ HasDegeneratePair(vel_data) /\ HasValidInterval(vel_data)
    /\ vel_out.success
    /\ Len(vel_out.velocities) = 1

\* the intervals a call reports
Intervals == IF vel_out.success THEN vel_out.velocities ELSE <<>>

\* C16: the number of intervals analyze_growth_velocity reports is the
\* number of distinct ages among the measurements minus one: an equal-age
\* pair gives no interval, 2 measurements of distinct ages give 1 interval,
\* n measurements of pairwise distinct ages give n - 1.
IntervalCountIsDistinctAgesMinusOne ==
    (VelDone /\ Len(vel_data) >= 1) =>
        Len(Intervals) = Cardinality(Ages(vel_data)) - 1

\* three measurements, two of them of the same age: one interval
WitnessEqualAgePairGivesNoInterval ==
    /\ VelDone
    /\ Len(vel_data) = 3
    /\ Cardinality(Ages(vel_data)) = 2
    /\ Len(Intervals) = 1


\* the rearrangements of a list
Rearrangements(seq) ==
    LET idx == DOMAIN seq IN
    {[k \in idx |-> seq[p[k]]] :
        p \in {q \in [idx -> idx] : \A j, k \in idx : q[j] = q[k] => j = k}}

\* two measurements of the same age that differ in weight or height
HasConflictingAge(data_list) ==
    \E j, k \in DOMAIN data_list :
        /\ data_list[j].usia_bulan = data_list[k].usia_bulan
        /\ data_list[j] # data_list[k]

IsAgeSorted(seq) ==
    \A n \in 1..(Len(seq) - 1) : seq[n].usia_bulan <= seq[n + 1].usia_bulan

\* C17 as stated: for every list of measurements and every permutation of
\* it, lists with two measurements of equal age and different weight or
\* height included, analyze_growth_velocity gives the identical interval
\* list, evaluations and summary.
PermutationInvariantAlways ==
    VelDone =>
        \A other \in Rearrangements(vel_data) :
            analyze_growth_velocity(other, vel_gender) = vel_out

\* C17: permutation invariance for the lists in which measurements of equal
\* age are equal in weight and height (pairwise distinct ages in
\* particular): every permutation of the list gives the identical sorted
\* data, interval list, evaluations and summary.
PermutationInvariantWithoutConflictingAges ==
    (VelDone /\ ~HasConflictingAge(vel_data)) =>
        /\ \A other \in Rearrangements(vel_data) :
              analyze_growth_velocity(other, vel_gender) = vel_out
        /\ vel_out.success =>
              /\ IsAgeSorted(vel_out.data)
              /\ vel_out.data \in Rearrangements(vel_data)

\* three measurements of distinct ages supplied out of order
WitnessOutOfOrderInput ==
    /\ VelDone
    /\ Len(vel_data) = 3
    /\ Cardinality(Ages(vel_data)) = 3
    /\ ~IsAgeSorted(vel_data)
    /\ vel_out.success
    /\ Len(vel_out.velocities) = 2

\* two measurements of one age and different weight: which of them meets
\* the next age depends on their input order
WitnessConflictingAgeOrderMatters ==
    /\ VelDone
    /\ HasConflictingAge(vel_data)
    /\ vel_out.success
    /\ \E other \in Rearrangements(vel_data) :
          LET r == analyze_growth_velocity(other, vel_gender) IN
          r.success /\ r.velocities # vel_out.velocities


\* the position in the sorted data of the pair the k-th interval is
\* computed from: the k-th adjacent pair with delta_months > 0
PairIndex(sorted_data, k) ==
    CHOOSE n \in 1..(Len(sorted_data) - 1) :
        /\ sorted_data[n + 1].usia_bulan > sorted_data[n].usia_bulan
        /\ Cardinality({j \in 1..n :
               sorted_data[j + 1].usia_bulan > sorted_data[j].usia_bulan}) = k

\* v is num / den to the last digit kept: no integer is nearer to num / den
IsRounded(v, num, den) == 2 * Abs(v * den - num) <= den

\* Scenario B: (6 months, 7.5 kg, 66 cm), (9, 8.8, 72), (12, 9.5, 76)
ScenarioB ==
    <<[usia_bulan |-> 6, bb |-> 75, tb |-> 660],
      [usia_bulan |-> 9, bb |-> 88, tb |-> 720],
      [usia_bulan |-> 12, bb |-> 95, tb |-> 760]>>

\* C18: for every reported interval between the age-adjacent measurements
\* (a1, w1, h1) and (a2, w2, h2), velocity_weight is (w2 - w1) / (a2 - a1)
\* to 3 decimals and velocity_height is (h2 - h1) / (a2 - a1) to 2
\* decimals; Scenario B, male, gives exactly 2 intervals with
\* velocity_weight 0.433 and 0.233.
VelocityIsDeltaOverMonths ==
    (VelDone /\ vel_out.success) =>
        /\ \A k \in DOMAIN vel_out.velocities :
              LET n == PairIndex(vel_out.data, k)
                  d1 == vel_out.data[n]
                  d2 == vel_out.data[n + 1]
                  v == vel_out.velocities[k]
              IN /\ v.periode = <<d1.usia_bulan, d2.usia_bulan>>
                 /\ IsRounded(v.velocity_bb, 100 * (d2.bb - d1.bb),
                              d2.usia_bulan - d1.usia_bulan)
                 /\ IsRounded(v.velocity_tb, 10 * (d2.tb - d1.tb),
                              d2.usia_bulan - d1.usia_bulan)
        /\ (vel_data = ScenarioB /\ vel_gender = "Laki-laki") =>
              /\ Len(vel_out.velocities) = 2
              /\ vel_out.velocities[1].velocity_bb = 433
              /\ vel_out.velocities[2].velocity_bb = 233

\* Scenario B has been analysed
WitnessScenarioB ==
    /\ VelDone /\ vel_out.success
    /\ vel_data = ScenarioB /\ vel_gender = "Laki-laki"
    /\ Len(vel_out.velocities) = 2
    /\ vel_out.velocities[1].velocity_bb = 433


RangeKeys == {"r0_3", "r3_6", "r6_9", "r9_12", "r12_24", "r24_60"}

\* the band of a mid-interval age m, counted in half months
InBand(range_key, m) ==
    CASE range_key = "r0_3" -> m < H(3)
      [] range_key = "r3_6" -> H(3) <= m /\ m < H(6)
      [] range_key = "r6_9" -> H(6) <= m /\ m < H(9)
      [] range_key = "r9_12" -> H(9) <= m /\ m < H(12)
      [] range_key = "r12_24" -> H(12) <= m /\ m < H(24)
      [] range_key = "r24_60" -> m >= H(24)

\* the static table entry of a band, a sex and a measure
TableEntry(range_key, gender, measure) ==
    LET row == GROWTH_VELOCITY_REFERENCE[range_key] IN
    IF gender \in {"Laki-laki", "M"}
    THEN IF measure = "weight" THEN row.weight_male ELSE row.height_male
    ELSE IF measure = "weight" THEN row.weight_female ELSE row.height_female

\* mid-interval ages from 0 to 25 months, in half months
MidAges == 0..H(25)

ReferenceIsBandOf(ref, m, gender) ==
    /\ ref.age_range \in RangeKeys
    /\ \A range_key \in RangeKeys :
          InBand(range_key, m) <=> range_key = ref.age_range
    /\ ref.weight_range = TableEntry(ref.age_range, gender, "weight")
    /\ ref.height_range = TableEntry(ref.age_range, gender, "height")
    /\ ref.weight_range[1] < ref.weight_range[2]
    /\ ref.height_range[1] < ref.height_range[2]

\* C19: the reference band of an interval is chosen by its mid-interval
\* age m = (a1 + a2) / 2 and the sex: m < 3 -> 0_3, 3 <= m < 6 -> 3_6,
\* 6 <= m < 9 -> 6_9, 9 <= m < 12 -> 9_12, 12 <= m < 24 -> 12_24,
\* m >= 24 -> the catch-all; every mid-age is in exactly one band, and the
\* (minNormal, maxNormal) pairs returned for weight and height are the
\* table entries of that band and sex, with minNormal < maxNormal.
ReferenceBandByMidAge ==
    /\ \A m \in MidAges, gender \in Genders :
          ReferenceIsBandOf(get_velocity_reference(m, gender), m, gender)
    /\ (VelDone /\ vel_out.success) =>
          \A k \in DOMAIN vel_out.evaluations :
              LET e == vel_out.evaluations[k]
                  n == PairIndex(vel_out.data, k)
                  m == vel_out.data[n].usia_bulan
                           + vel_out.data[n + 1].usia_bulan
              IN ReferenceIsBandOf(e.reference, m, vel_gender)

\* an interval from 6 to 12 months: its mid-age 9 is in band 9_12
WitnessMidAgeOnBoundary ==
    /\ VelDone /\ vel_out.success
    /\ \E k \in DOMAIN vel_out.evaluations :
          /\ vel_out.evaluations[k].vel.periode = <<6, 12>>
          /\ vel_out.evaluations[k].vel.mid_age = H(9)
          /\ vel_out.evaluations[k].reference.age_range = "r9_12"


Severities == {"critical", "warning", "attention", "normal", "good"}

\* the grade of a velocity against (minNormal, maxNormal), one condition
\* per severity
HasGrade(severity, velocity, min_normal, max_normal) ==
    CASE severity = "critical" -> velocity < 0
      [] severity = "warning" -> velocity >= 0 /\ 2 * velocity < min_normal
      [] severity = "attention" ->
             velocity >= 0 /\ 2 * velocity >= min_normal
                 /\ velocity < min_normal
      [] severity = "normal" ->
             velocity >= 0 /\ velocity >= min_normal
                 /\ velocity <= max_normal
      [] severity = "good" ->
             velocity >= 0 /\ velocity >= min_normal
                 /\ velocity > max_normal

StatusOf(severity) ==
    CASE severity = "critical" -> "Penurunan"
      [] severity = "warning" -> "Sangat Lambat"
      [] severity = "attention" -> "Lambat"
      [] severity = "normal" -> "Normal"
      [] severity = "good" -> "Cepat"

IsGradeOf(evaluation, velocity, range) ==
    /\ evaluation.severity \in Severities
    /\ \A severity \in Severities :
          HasGrade(severity, velocity, range[1], range[2])
              <=> severity = evaluation.severity
    /\ evaluation.status = StatusOf(evaluation.severity)

\* every (minNormal, maxNormal) of the table
ReferenceRanges ==
    {TableEntry(range_key, gender, measure) :
        range_key \in RangeKeys, gender \in Genders,
        measure \in {"weight", "height"}}

\* the velocities around the thresholds of a range
EdgeVelocities(range) ==
    {-1, 0, 1}
        \cup {range[1] \div 2 + d : d \in {-1, 0, 1}}
        \cup {range[1] + d : d \in {-1, 0, 1}}
        \cup {range[2] + d : d \in {-1, 0, 1}}

\* C20: evaluate_velocity grades a velocity into exactly one severity, in
\* this order: velocity < 0 -> decline (critical); else velocity <
\* 0.5 * minNormal -> very slow (warning); else velocity < minNormal ->
\* slow (attention); else velocity <= maxNormal -> normal; else fast.
\* Velocity 0 is not a decline, velocity = minNormal and velocity =
\* maxNormal are normal, and the weight and the height of an interval are
\* graded independently of each other.
VelocityGradedInFixedOrder ==
    /\ \A range \in ReferenceRanges :
          /\ \A velocity \in EdgeVelocities(range) :
                IsGradeOf(evaluate_velocity(velocity, range, "berat badan"),
                          velocity, range)
          /\ evaluate_velocity(0, range, "berat badan").severity
                 # "critical"
          /\ evaluate_velocity(range[1], range, "berat badan").severity
                 = "normal"
          /\ evaluate_velocity(range[2], range, "berat badan").severity
                 = "normal"
    /\ (VelDone /\ vel_out.success) =>
          \A k \in DOMAIN vel_out.evaluations :
              LET e == vel_out.evaluations[k] IN
              /\ IsGradeOf(e.bb_evaluation, vel_out.velocities[k].velocity_bb,
                           e.reference.weight_range)
              /\ IsGradeOf(e.tb_evaluation, vel_out.velocities[k].velocity_tb,
                           e.reference.height_range)

\* an interval whose weight falls and whose height stands still: the
\* weight is a decline, the height velocity 0 is very slow, not a decline
WitnessWeightDeclinesHeightStill ==
    /\ VelDone /\ vel_out.success
    /\ \E k \in DOMAIN vel_out.evaluations :
          /\ vel_out.velocities[k].velocity_bb < 0
          /\ vel_out.velocities[k].velocity_tb = 0
          /\ vel_out.evaluations[k].bb_evaluation.severity = "critical"
          /\ vel_out.evaluations[k].tb_evaluation.severity = "warning"


\* every severity an analysis has graded, weight and height together
GradedSeverities(evaluations) ==
    {evaluations[n].bb_evaluation.severity : n \in DOMAIN evaluations}
        \cup {evaluations[n].tb_evaluation.severity : n \in DOMAIN evaluations}

\* the worst of a set of severities: critical > warning > attention >
\* normal or fast
WorstSeverity(severities) ==
    IF "critical" \in severities THEN "critical"
    ELSE IF "warning" \in severities THEN "warning"
    ELSE IF "attention" \in severities THEN "attention"
    ELSE "normal"

\* C21: the overall severity of a report is the worst severity over all
\* interval x measure evaluations with precedence critical > warning >
\* attention > normal or fast (critical iff some evaluation is critical,
\* otherwise warning iff some is warning, otherwise attention iff some is
\* attention, otherwise normal), and the overall message is the fixed
\* message of that level.
OverallIsWorstSeverity ==
    (VelDone /\ vel_out.success) =>
        LET worst == WorstSeverity(GradedSeverities(vel_out.evaluations)) IN
        /\ vel_out.summary.overall_status = worst
        /\ vel_out.summary.overall_message = OverallMessage(worst)
        /\ worst = "attention" =>
              vel_out.summary.overall_message # OverallMessage("normal")

\* the part of the precedence the report does follow: critical before
\* warning before everything else
OverallIsCriticalWarningOrNormal ==
    (VelDone /\ vel_out.success) =>
        LET graded == GradedSeverities(vel_out.evaluations) IN
        /\ vel_out.summary.overall_status =
               (IF "critical" \in graded THEN "critical"
                ELSE IF "warning" \in graded THEN "warning" ELSE "normal")
        /\ vel_out.summary.overall_message =
               OverallMessage(vel_out.summary.overall_status)

\* a report whose worst grade is slow (attention) and whose overall status
\* is normal
WitnessAttentionReportedNormal ==
    /\ VelDone /\ vel_out.success
    /\ WorstSeverity(GradedSeverities(vel_out.evaluations)) = "attention"
    /\ vel_out.summary.overall_status = "normal"


\* sorted_data is data_list rearranged with the measurements of one age in
\* the order data_list has them
IsStableRearrangement(sorted_data, data_list) ==
    LET idx == DOMAIN data_list IN
    /\ DOMAIN sorted_data = idx
    /\ \E p \in {q \in [idx -> idx] : \A j, k \in idx : q[j] = q[k] => j = k} :
          /\ \A k \in idx : sorted_data[k] = data_list[p[k]]
          /\ \A j, k \in idx :
                (j < k /\ sorted_data[j].usia_bulan = sorted_data[k].usia_bulan)
                    => p[j] < p[k]

IntervalSum(velocities, field) ==
    Sum([n \in DOMAIN velocities |-> velocities[n][field]], 1)

WitnessExcludedPairCarriesChange ==
    /\ VelDone /\ vel_out.success
    /\ HasConflictingAge(vel_data)
    /\ vel_out.summary.total_delta_bb
           # IntervalSum(vel_out.velocities, "delta_bb")


(***************************************************************************)
(* get_normal_ranges(sex, age_months): nine inversions, three targets for  *)
(* each of weight, height and head circumference.  A returned value is     *)
(* counted in units of the last digit it is rounded to.                    *)
(***************************************************************************)
NrAges == {0, 1}

\* the inversions in the order they are made: BOUNDS key, target_z
NrPlan ==
    <<[kind |-> "wfa", z |-> -2], [kind |-> "wfa", z |-> 0],
      [kind |-> "wfa", z |-> 2],
      [kind |-> "hfa", z |-> -2], [kind |-> "hfa", z |-> 0],
      [kind |-> "hfa", z |-> 2],
      [kind |-> "hcfa", z |-> -2], [kind |-> "hcfa", z |-> 0],
      [kind |-> "hcfa", z |-> 2]>>

\* round(x, 2) for weight, round(x, 1) for height and head circumference:
\* the x units in one unit of the last digit kept
NrQuantum(kind) == IF kind = "wfa" THEN 2 ELSE 4

NrRange(vals, n, unit) ==
    [min_normal |-> vals[n], median |-> vals[n + 1],
     max_normal |-> vals[n + 2], unit |-> unit]

\* def wfa_func(w): return _safe_z_calc(calc.wfa, w, age_months, sex)
NrFunc(kind, sex, age_months) ==
    IF sex.ty = "str" /\ sex.s \in Sexes /\ age_months.ty = "num"
    THEN SvcFunc(kind, sex.s, age_months.n, 0)
    ELSE BadArgsFunc

\* get_normal_ranges(sex, age_months) up to its first inversion:
\* if calc is None: return {}
NrCall(sex, age_months) ==
    /\ nr_sex' = sex
    /\ nr_age' = age_months
    /\ nr_vals' = <<>>
    /\ IF calc = NoCalc
       THEN /\ nr_ret' = <<>>
            /\ nr_idx' = 0
            /\ nr_pc' = "done"
       ELSE /\ nr_ret' = <<>>
            /\ nr_idx' = 1
            /\ nr_pc' = "loop"

\* a call of get_normal_ranges with a sex and an age
GetNormalRanges ==
    /\ Quiet
    /\ \E sex \in Sexes, age \in NrAges : NrCall(PyStr(sex), PyNum(age))
    /\ UNCHANGED <<invVars, genVars, clsVars, zscVars, velVars, moreVars>>

\* invert_zscore_function(wfa_func, -2, lo, hi), ...
NrInvert ==
    /\ nr_pc = "loop"
    /\ nr_idx <= Len(NrPlan)
    /\ InvLocals(Bounds(NrPlan[nr_idx].kind).lo, Bounds(NrPlan[nr_idx].kind).hi,
                 NrPlan[nr_idx].z,
                 NrFunc(NrPlan[nr_idx].kind, nr_sex, nr_age))
    /\ nr_pc' = "inv"
    /\ UNCHANGED <<nr_sex, nr_age, nr_idx, nr_vals, nr_ret>>
    /\ UNCHANGED <<genVars, clsVars, zscVars, velVars, moreVars>>

\* round(invert_zscore_function(...), ndigits)
NrRound ==
    /\ nr_pc = "inv"
    /\ pc = "done"
    /\ nr_vals' = Append(nr_vals,
                         Round(result.v, NrQuantum(NrPlan[nr_idx].kind)))
    /\ nr_idx' = nr_idx + 1
    /\ nr_pc' = "loop"
    /\ pc' = "idle"
    /\ UNCHANGED <<zf, zs, target, lo, hi, i, last_x, last_f, best_x, best_abs,
                   a, b, fa, fb, iter, result, path, nevals>>
    /\ UNCHANGED <<nr_sex, nr_age, nr_ret>>
    /\ UNCHANGED <<genVars, clsVars, zscVars, velVars, moreVars>>

\* return ranges
NrReturn ==
    /\ nr_pc = "loop"
    /\ nr_idx > Len(NrPlan)
    /\ nr_ret' = [weight |-> NrRange(nr_vals, 1, "kg"),
                  height |-> NrRange(nr_vals, 4, "cm"),
                  head_circ |-> NrRange(nr_vals, 7, "cm")]
    /\ nr_pc' = "done"
    /\ UNCHANGED <<nr_sex, nr_age, nr_idx, nr_vals>>
    /\ UNCHANGED <<invVars, genVars, clsVars, zscVars, velVars, moreVars>>

(***************************************************************************)
(* mode_mudah_handler(usia_bulan, jenis_kelamin): the page of normal       *)
(* ranges.  usia_bulan is counted after as_float: None or a number.        *)
(***************************************************************************)
MmUsia == {None, Num(-1), Num(0), Num(1), Num(61)}

\* get_sex_code(jenis_kelamin)
get_sex_code(jenis_kelamin) == IF jenis_kelamin = "Laki-laki" THEN "M" ELSE "F"

MmInvalidAge == [error |-> "Masukkan usia valid (0-60 bulan)"]
MmNoRanges == [error |-> "Tidak dapat mengambil data rentang normal"]

\* mode_mudah_handler up to the return of get_normal_ranges(age, sex_code)
mode_mudah_handler ==
    /\ Quiet
    /\ \E usia_bulan \in MmUsia, jenis_kelamin \in Genders :
          LET age == usia_bulan
              sex_code == get_sex_code(jenis_kelamin)
          IN /\ mm_in' = [usia_bulan |-> usia_bulan,
                          jenis_kelamin |-> jenis_kelamin]
             /\ IF age = None \/ age.v < AgeMin \/ age.v > AgeMax
                THEN /\ mm_out' = MmInvalidAge
                     /\ mm_pc' = "done"
                     /\ UNCHANGED nrVars
                ELSE \* ranges = get_normal_ranges(age, sex_code)
                     /\ NrCall(PyNum(age.v), PyStr(sex_code))
                     /\ mm_out' = <<>>
                     /\ mm_pc' = "call"
    /\ UNCHANGED <<invVars, genVars, clsVars, zscVars, velVars, pairVars,
                   cacheVars>>

\* w.get('min', 0)
DictGet(d, key) == IF key \in DOMAIN d THEN d[key] ELSE 0

\* the stored units in one unit of the digit shown by {:.1f}: a weight is
\* stored to 2 decimals, a height and a head circumference to 1
ShownQuantum(measure) == IF measure = "weight" THEN 2 ELSE 1

\* {w.get('min', 0):.1f} - {w.get('max', 0):.1f}, Median: {w.get('median', 0):.1f}
MmShow(ranges, measure) ==
    LET w == DictGet(ranges, measure) IN
    [min |-> Round(DictGet(w, "min"), ShownQuantum(measure)),
     max |-> Round(DictGet(w, "max"), ShownQuantum(measure)),
     median |-> Round(DictGet(w, "median"), ShownQuantum(measure))]

\* if not ranges: return ...; the three cards of the page
ModeMudahPage ==
    /\ mm_pc = "call"
    /\ nr_pc = "done"
    /\ mm_out' = IF DOMAIN nr_ret = {}
                 THEN MmNoRanges
                 ELSE [weight |-> MmShow(nr_ret, "weight"),
                       height |-> MmShow(nr_ret, "height"),
                       head_circ |-> MmShow(nr_ret, "head_circ")]
    /\ mm_pc' = "done"
    /\ UNCHANGED mm_in
    /\ UNCHANGED <<invVars, genVars, clsVars, zscVars, nrVars, velVars,
                   pairVars, cacheVars>>

(***************************************************************************)
(* The operations that consult who_calculator.calc, and the velocity       *)
(* analysis, in a process that was started with or without pygrowup.       *)
(***************************************************************************)
InitApp ==
    /\ InitInv /\ InitGen /\ InitCls /\ InitExt
    /\ calc \in {NoCalc} \cup {svc \in Services : svc.oob = None}

NextApp ==
    \/ CallCalculateAllZScores
    \/ GetNormalRanges
    \/ NrInvert
    \/ NrRound
    \/ NrReturn
    \/ mode_mudah_handler
    \/ ModeMudahPage
    \/ GenCall
    \/ GenInvert
    \/ GenAppend
    \/ GenReturn
    \/ SampleStep
    \/ SampleExit
    \/ BrentStart
    \/ BrentLoop
    \/ CallAnalyzeGrowthVelocity

SpecApp == InitApp /\ [][NextApp]_vars

\* C14: when the reference-curve service is unavailable (calc is None)
\* nothing raises: calculate_all_zscores returns five null fields, both
\* classifiers label all five indicators unavailable, get_normal_ranges
\* returns an empty result, each curve generator returns a grid and a
\* values sequence of the same length, and analyze_growth_velocity returns
\* what it returns when the service is available.
DegradesWithoutCalculator ==
    /\ calc = NoCalc =>
          /\ zsc_pc = "done" =>
                /\ zsc_ret = "results"
                /\ zsc_out = AllNull
                /\ zsc_calls = 0
                /\ \A key \in Indicators :
                      /\ classify_permenkes_2020(zsc_out)[key] = PermenkesNA
                      /\ classify_who_standards(zsc_out)[key] = WhoNA
          /\ nr_pc \in {"idle", "done"}
          /\ nr_pc = "done" => nr_ret = <<>>
          /\ gen_pc \in {"idle", "ret"}
          /\ gen_pc = "ret" =>
                /\ gen_ret.grid = Grid(gen_kind)
                /\ Len(gen_ret.values) = Len(gen_ret.grid)
    /\ VelDone => vel_out = analyze_growth_velocity(vel_data, vel_gender)

\* every measurement supplied and valid, and no calculator: five nulls
WitnessAllSuppliedNoCalculator ==
    /\ calc = NoCalc
    /\ Returned
    /\ zsc_in.age = 9
    /\ zsc_in.weight # None /\ zsc_in.height # None /\ zsc_in.head # None
    /\ SuppliedPositive(zsc_in)
    /\ zsc_out = AllNull

\* a curve generated without a calculator
WitnessCurveNoCalculator ==
    /\ calc = NoCalc
    /\ gen_pc = "ret"
    /\ Len(gen_ret.values) = GridLen

\* normal ranges computed with a calculator
WitnessNormalRanges ==
    /\ calc # NoCalc
    /\ nr_pc = "done"
    /\ nr_ret.weight.min_normal <= nr_ret.weight.max_normal

\* the page shows ranges
MmShown == mm_pc = "done" /\ "weight" \in DOMAIN mm_out

\* C30: for a valid age in [0, 60] and a sex, mode_mudah_handler shows for
\* weight, height and head circumference the range from the value at
\* Z = -2 to the value at Z = +2, and the median at Z = 0, that
\* get_normal_ranges computes for that sex and that age.
EasyModeShowsComputedRanges ==
    (mm_pc = "done" /\ calc # NoCalc /\ mm_in.usia_bulan # None
        /\ mm_in.usia_bulan.v >= AgeMin /\ mm_in.usia_bulan.v <= AgeMax) =>
        /\ MmShown
        /\ nr_sex = PyStr(get_sex_code(mm_in.jenis_kelamin))
        /\ nr_age = PyNum(mm_in.usia_bulan.v)
        /\ \A measure \in {"weight", "height", "head_circ"} :
              LET q == ShownQuantum(measure) IN
              /\ mm_out[measure].min = Round(nr_ret[measure].min_normal, q)
              /\ mm_out[measure].median = Round(nr_ret[measure].median, q)
              /\ mm_out[measure].max = Round(nr_ret[measure].max_normal, q)

\* what the page does show: for an age outside [0, 60] the request for a
\* valid age, without a calculator the failure notice, otherwise the
\* median get_normal_ranges returned and a min and a max the returned
\* ranges do not have
EasyModePageAsBuilt ==
    mm_pc = "done" =>
        IF mm_in.usia_bulan = None \/ mm_in.usia_bulan.v < AgeMin
              \/ mm_in.usia_bulan.v > AgeMax
        THEN mm_out = MmInvalidAge /\ nr_pc = "idle"
        ELSE IF calc = NoCalc
        THEN mm_out = MmNoRanges
        ELSE /\ MmShown
             /\ nr_sex.ty = "num" /\ nr_age.ty = "str"
             /\ \A measure \in {"weight", "height", "head_circ"} :
                   /\ mm_out[measure].min = 0
                   /\ mm_out[measure].max = 0
                   /\ mm_out[measure].median
                         = Round(nr_ret[measure].median, ShownQuantum(measure))
                   /\ nr_ret[measure].min_normal = nr_ret[measure].max_normal

\* a valid age and a working calculator: the page shows the range 0 - 0
WitnessEasyModeShowsZeroRange ==
    /\ MmShown /\ calc # NoCalc
    /\ mm_in.usia_bulan = Num(1)
    /\ mm_out.weight.min = 0 /\ mm_out.weight.max = 0
    /\ nr_ret.weight.min_normal > 0

(***************************************************************************)
(* The curve of a key as a value.  With the module-level calculator c the  *)
(* closure of a generator is a pure function, so invert_zscore_function    *)
(* and the generators are functions of their arguments; they are written   *)
(* here as operators, statement by statement as above.                     *)
(***************************************************************************)
\* z_func(x) for the closure f of a generator
ZOf(c, f, x) == SafeZCalc(c, f.kind, x, f.age, f.sex, f.aux)

RECURSIVE brentq_loop(_, _, _, _, _, _, _)
\* for iteration in range(maxiter): ... ; return 0.5 * (a + b)
brentq_loop(c, f, t, xa, xb, va, n) ==
    IF n >= maxiter THEN MidPoint(xa, xb)
    ELSE LET m == MidPoint(xa, xb)
             fm == Lam(ZOf(c, f, m), t)
         IN IF fm = None THEN m
            ELSE IF Abs(fm.v) < ResTol \/ (xb - xa) < 2 * XTol THEN m
            ELSE IF va.v * fm.v < 0
            THEN brentq_loop(c, f, t, xa, m, va, n + 1)
            ELSE brentq_loop(c, f, t, m, xb, fm, n + 1)

\* brentq_rootfind(lambda t: (z_func(t) or 0.0) - target_z, a, b, xtol=1e-5)
brentq_rootfind(c, f, t, xa, xb) ==
    LET va == Lam(ZOf(c, f, xa), t)
        vb == Lam(ZOf(c, f, xb), t)
    IN IF va = None \/ vb = None THEN MidPoint(xa, xb)
       ELSE IF Abs(va.v) < ResTol THEN xa
       ELSE IF Abs(vb.v) < ResTol THEN RootAtB(xa, xb)
       ELSE IF va.v * vb.v > 0 THEN MidPoint(xa, xb)
       ELSE brentq_loop(c, f, t, xa, xb, va, 0)

RECURSIVE sample_loop(_, _, _, _, _, _, _, _, _, _)
\* for x in xs: ... ; return float(best_x if best_x is not None else ...)
sample_loop(c, f, t, l, h, n, lx, lf, bx, ba) ==
    IF ~SampleLoopContinues(n)
    THEN IF bx # None THEN bx.v ELSE MidPoint(l, h)
    ELSE LET x == Xs(l, h, n)
             r == Residual(ZOf(c, f, x), t)
         IN IF r = None
            THEN sample_loop(c, f, t, l, h, n + 1, lx, lf, bx, ba)
            ELSE LET af == Abs(r.v)
                     better == IsBetter(af, ba)
                 IN IF Straddles(r, lf)
                    THEN brentq_rootfind(c, f, t, lx.v, x)
                    ELSE sample_loop(c, f, t, l, h, n + 1, Num(x), r,
                                     IF better THEN Num(x) ELSE bx,
                                     IF better THEN Num(af) ELSE ba)

invert_zscore_function(c, f, t, l, h) ==
    sample_loop(c, f, t, l, h, 0, None, None, None, Inf)

\* the body of generate_wfa_curve(sex, z_score), ..., and of
\* generate_wfl_curve(sex, age_months, z_score)
generate_curve(c, kind, sex, age, z) ==
    IF c = NoCalc
    THEN [grid |-> Grid(kind), values |-> ZerosLike(Grid(kind))]
    ELSE [grid |-> Grid(kind),
          values |->
              [j \in 1..GridLen |->
                  invert_zscore_function(
                      c, CurveFunc(kind, sex, age, Grid(kind)[j]), z,
                      Bounds(kind).lo, Bounds(kind).hi)]]

\* the operators and the step-by-step generators compute the same curve
\* and the same inversion results
GeneratorsComputeTheCurveOfTheirKey ==
    /\ gen_pc = "ret" =>
          gen_ret = generate_curve(calc, gen_kind, gen_sex, gen_age, gen_z)
    /\ (pc = "done" /\ zf.t = "svc") =>
          result.v = invert_zscore_function(calc, zf, target, lo, hi)

(***************************************************************************)
(* @lru_cache(maxsize=128) around generate_wfa_curve(sex, z_score) and     *)
(* generate_wfl_curve(sex, age_months, z_score), called from the request   *)
(* threads.  The wrapper looks the key up and, on a miss, calls the        *)
(* generator and then stores the result; the lookup and the store are each *)
(* done under the wrapper's lock, the call of the generator is not.  The   *)
(* generator reads its arguments and the calculator and writes locals      *)
(* only, so its call is one step here.                                     *)
(***************************************************************************)
\* maxsize=128, scaled
maxsize == 2

\* the requests: (sex, z_score) for wfa, more keys than the cache holds,
\* and (sex, age_months, z_score) for wfl
CurveArgs ==
    {[kind |-> "wfa", sex |-> sex, age |-> 0, z |-> z] :
        sex \in Sexes, z \in {0, 1}}
    \cup {[kind |-> "wfl", sex |-> "F", age |-> age, z |-> 0] :
             age \in WflAges}

\* the key the wrapper makes of the positional arguments
KeyOf(args) ==
    IF args.kind = "wfl" THEN <<args.sex, args.age, args.z>>
    ELSE <<args.sex, args.z>>

\* where key is in the cache, 0 if it is not
Position(entries, key) ==
    IF \E n \in DOMAIN entries : entries[n].key = key
    THEN CHOOSE n \in DOMAIN entries : entries[n].key = key
    ELSE 0

Without(entries, n) ==
    SubSeq(entries, 1, n - 1) \o SubSeq(entries, n + 1, Len(entries))

\* a hit that leaves the entry where it is
TouchInPlace(entries, n) == entries
\* a hit moves the entry to the most recently used end
Touch(entries, n) == Append(Without(entries, n), entries[n])

\* a hit that returns the result of the least recently used entry
HitResultOfOldest(entries, n) == entries[1].result
\* a hit returns the result stored with the key
HitResult(entries, n) == entries[n].result

\* the key a store removes: the least recently used one when the cache is
\* full
Evicted(entries) ==
    IF Len(entries) >= maxsize THEN entries[1].key ELSE NoKey

\* a store that does not look for the key again
StoreUnchecked(entries, e) ==
    IF Len(entries) >= maxsize
    THEN Append(Tail(entries), e)
    ELSE Append(entries, e)
\* the store after the call: nothing if the key was stored meanwhile, else
\* the new entry at the most recently used end, in place of the least
\* recently used one when the cache is full
Store(entries, e) ==
    IF Position(entries, e.key) # 0 THEN entries
    ELSE IF Len(entries) >= maxsize
    THEN Append(Tail(entries), e)
    ELSE Append(entries, e)

\* thread t calls a generator: the lookup
CurveRequest(t) ==
    /\ th[t].pc = "idle"
    /\ \E args \in CurveArgs :
          LET entries == cache[args.kind]
              n == Position(entries, KeyOf(args))
          IN IF n # 0
             THEN /\ cache' = [cache EXCEPT ![args.kind] = Touch(entries, n)]
                  /\ th' = [th EXCEPT ![t] =
                               [pc |-> "returned", args |-> args, hit |-> TRUE,
                                computed |-> FALSE,
                                val |-> HitResult(entries, n),
                                evicted |-> NoKey]]
             ELSE /\ th' = [th EXCEPT ![t] =
                               [pc |-> "computing", args |-> args,
                                hit |-> FALSE, computed |-> FALSE,
                                val |-> None, evicted |-> NoKey]]
                  /\ UNCHANGED cache
    /\ UNCHANGED <<invVars, genVars, clsVars, zscVars, nrVars, velVars,
                   pairVars, easyVars>>

\* the generator runs for thread t
CurveCompute(t) ==
    /\ th[t].pc = "computing"
    /\ LET args == th[t].args IN
       th' = [th EXCEPT ![t].pc = "computed",
                        ![t].computed = TRUE,
                        ![t].val = generate_curve(calc, args.kind, args.sex,
                                                  args.age, args.z)]
    /\ UNCHANGED cache
    /\ UNCHANGED <<invVars, genVars, clsVars, zscVars, nrVars, velVars,
                   pairVars, easyVars>>

\* the wrapper stores the result of thread t and returns it
CurveStore(t) ==
    /\ th[t].pc = "computed"
    /\ LET args == th[t].args
           entries == cache[args.kind]
           e == [key |-> KeyOf(args), result |-> th[t].val]
       IN /\ cache' = [cache EXCEPT ![args.kind] = Store(entries, e)]
          /\ th' = [th EXCEPT ![t].pc = "returned",
                              ![t].evicted =
                                  IF Position(entries, e.key) # 0 THEN NoKey
                                  ELSE Evicted(entries)]
    /\ UNCHANGED <<invVars, genVars, clsVars, zscVars, nrVars, velVars,
                   pairVars, easyVars>>

\* the caller has the curve; the thread is free for the next request
CurveDone(t) ==
    /\ th[t].pc = "returned"
    /\ th' = [th EXCEPT ![t] = IdleThread]
    /\ UNCHANGED cache
    /\ UNCHANGED <<invVars, genVars, clsVars, zscVars, nrVars, velVars,
                   pairVars, easyVars>>

InitCache ==
    /\ InitInv /\ InitGen /\ InitCls /\ InitExt
    /\ calc \in {NoCalc}
           \cup {svc \in Services : svc.oob = None /\ svc.shift = 0}

NextCache ==
    \/ \E t \in Threads : CurveRequest(t)
    \/ \E t \in Threads : CurveCompute(t)
    \/ \E t \in Threads : CurveStore(t)
    \/ \E t \in Threads : CurveDone(t)

SpecCache == InitCache /\ [][NextCache]_vars

Keys(entries) == {entries[n].key : n \in DOMAIN entries}

\* the curve an uncached call computes for a key of a generator
CurveOfKey(kind, key) ==
    generate_curve(calc, kind, key[1], IF kind = "wfl" THEN key[2] ELSE 0,
                   key[Len(key)])

\* thread t returns from the wrapper in this step
Returns(t) == th[t].pc # "returned" /\ th'[t].pc = "returned"

CacheWithinCapacity ==
    \A kind \in CacheKinds :
        /\ Len(cache[kind]) <= maxsize
        /\ \A n \in DOMAIN cache[kind] :
              Len(cache[kind][n].key) = (IF kind = "wfl" THEN 3 ELSE 2)

\* what a step does to the cache of one generator
LruStep(kind) ==
    LET old == cache[kind]
        new == cache'[kind]
    IN /\ (\A t \in Threads : ~(Returns(t) /\ th'[t].args.kind = kind))
              => new = old
       /\ \A t \in Threads :
             (Returns(t) /\ th'[t].args.kind = kind) =>
                LET key == KeyOf(th'[t].args) IN
                IF th'[t].hit
                THEN \* a hit: the key becomes the most recently used
                     /\ key \in Keys(old)
                     /\ Keys(new) = Keys(old)
                     /\ new[Len(new)].key = key
                     /\ SubSeq(new, 1, Len(new) - 1)
                            = Without(old, Position(old, key))
                ELSE IF key \in Keys(old)
                THEN new = old
                ELSE \* an uncached key: stored as the most recently used,
                     \* in place of the least recently used when full
                     /\ new[Len(new)].key = key
                     /\ IF Len(old) = maxsize
                        THEN /\ SubSeq(new, 1, Len(new) - 1) = Tail(old)
                             /\ Keys(old) \ Keys(new) = {old[1].key}
                             /\ th'[t].evicted = old[1].key
                        ELSE /\ SubSeq(new, 1, Len(new) - 1) = old
                             /\ th'[t].evicted = NoKey

\* C22: after any sequence of curve requests the cache of each curve kind
\* holds at most maxsize entries, keyed by (sex, targetZ) or (sex,
\* fixedAge, targetZ); a request for an uncached key when the cache is full
\* evicts exactly the least recently used key, and a hit makes its key the
\* most recently used.
CacheIsBoundedLru ==
    /\ []CacheWithinCapacity
    /\ [][\A kind \in CacheKinds : LruStep(kind)]_vars

\* a request has stored an uncached key in a full cache and evicted a key
WitnessEvictionFromFullCache ==
    \E t \in Threads :
        /\ th[t].pc = "returned" /\ ~th[t].hit
        /\ th[t].evicted # NoKey
        /\ Len(cache[th[t].args.kind]) = maxsize
        /\ th[t].evicted \notin Keys(cache[th[t].args.kind])

\* C23: under every interleaving of concurrent requests each request
\* returns the curve of its own key, the cache never holds two entries for
\* one key nor more than its capacity, every entry a request can see is a
\* whole one (the key with the complete curve of that key), and two
\* requests that both computed the same key return equal results.
ConcurrentRequestsAreServed ==
    /\ \A t \in Threads :
          th[t].pc = "returned" =>
              /\ th[t].val = CurveOfKey(th[t].args.kind, KeyOf(th[t].args))
              /\ Len(th[t].val.values) = GridLen
    /\ \A kind \in CacheKinds :
          LET entries == cache[kind] IN
          /\ Len(entries) <= maxsize
          /\ \A m, n \in DOMAIN entries :
                entries[m].key = entries[n].key => m = n
          /\ \A n \in DOMAIN entries :
                /\ DOMAIN entries[n] = {"key", "result"}
                /\ Len(entries[n].result.values)
                       = Len(entries[n].result.grid)
    /\ \A t, u \in Threads :
          (th[t].pc = "returned" /\ th[u].pc = "returned"
              /\ th[t].args = th[u].args) => th[t].val = th[u].val

\* two requests raced on one uncached key: both computed it, both have
\* returned, and the cache holds the key once
WitnessRaceOnOneKey ==
    /\ th[1].pc = "returned" /\ th[2].pc = "returned"
    /\ th[1].args = th[2].args
    /\ th[1].computed /\ th[2].computed
    /\ calc # NoCalc
    /\ Cardinality({n \in DOMAIN cache[th[1].args.kind] :
           cache[th[1].args.kind][n].key = KeyOf(th[1].args)}) = 1

\* a stored result is the curve an uncached call computes for its key
StoredIsUncached ==
    \A kind \in CacheKinds :
        \A n \in DOMAIN cache[kind] :
            cache[kind][n].result = CurveOfKey(kind, cache[kind][n].key)

\* a hit returns what an uncached call returns, without calling the
\* generator (and so without a call of the calculator)
HitIsUncachedResult ==
    \A t \in Threads :
        /\ (th[t].pc = "returned" /\ th[t].hit) =>
              /\ ~th[t].computed
              /\ th[t].val = generate_curve(calc, th[t].args.kind,
                                            th[t].args.sex, th[t].args.age,
                                            th[t].args.z)
        /\ th[t].computed => ~th[t].hit

\* no step changes the result stored with a key that stays in the cache
StoredResultsKept ==
    \A kind \in CacheKinds :
        \A m \in DOMAIN cache[kind], n \in DOMAIN cache'[kind] :
            cache[kind][m].key = cache'[kind][n].key
                => cache[kind][m].result = cache'[kind][n].result

\* C24: the cache is transparent: after any sequence of requests and
\* evictions a request returns the grid and the values an uncached
\* computation for its key returns, a hit calls neither the generator nor
\* the calculator, and no request changes the curve stored or returned for
\* another key.
CacheIsTransparent ==
    /\ [](StoredIsUncached /\ HitIsUncachedResult)
    /\ [][StoredResultsKept]_vars

\* a hit in a full cache from which the other thread has just evicted a
\* key
WitnessHitAfterEviction ==
    \E t, u \in Threads :
        /\ t # u
        /\ th[t].pc = "returned" /\ th[t].hit
        /\ th[u].pc = "returned" /\ th[u].evicted # NoKey
        /\ th[t].args.kind = th[u].args.kind
        /\ calc # NoCalc


=============================================================================
